---- MODULE Spec2Model ----
(***************************************************************************)
(* Key/value attention caches of the generation runtime                    *)
(* (src/src/models/kv_cache.cpp): the Combined cache, the Split cache with *)
(* its shared-buffer mode, and the Sliding-window cache.                   *)
(*                                                                         *)
(* One cache object lives in the variable `cache`, a record that carries   *)
(* the object's fields under their source names, the State it is bound to  *)
(* (inputs_, outputs_) and the allocator's heap: heap maps each live       *)
(* tensor handle to [shape, data]; a handle is the identity of one         *)
(* OrtValue and is never reused.  Offsets and indices keep the source's    *)
(* 0-based values; TLA+ sequences are 1-based, so element x of a C++       *)
(* vector v is v[x + 1].                                                   *)
(***************************************************************************)
EXTENDS Integers, Sequences, FiniteSets, TLC

VARIABLES cache, prev, atAdd, lastOp, nUpdates, collapses, readback, call,
          engine, java

vars == <<cache, prev, atAdd, lastOp, nUpdates, collapses, readback, call,
          engine, java>>

(***************************************************************************)
(* Bounds of the model.                                                    *)
(***************************************************************************)
MaxLayers == 1
MaxLength == 2
MaxUpdates == 2
MaxHeads == 2
MaxHeadSize == 2
MaxContext == 5

\* The contents a graph run writes, and the contents a freshly allocated
\* (uninitialised) buffer happens to hold, are drawn from these seeds.
Seeds == {0, 40}

\* (batch_size, num_beams) of the search parameters.
BatchBeams == {<<1, 1>>, <<2, 1>>, <<1, 2>>}

ModelTypes == {"whisper", "llama"}

\* A default-constructed std::unique_ptr<OrtValue>.
Null == 0

\* A tensor another component registered in the State (input_ids, logits).
Foreign == -1

(***************************************************************************)
(* Spans and buffers.                                                      *)
(***************************************************************************)
RECURSIVE Prod(_)
Prod(shape) == IF shape = <<>> THEN 1 ELSE Head(shape) * Prod(Tail(shape))

\* copy(source, dest) where dest starts at offset off of buffer dst
Put(dst, off, src) ==
  [k \in 1..Len(dst) |-> IF k > off /\ k <= off + Len(src) THEN src[k - off] ELSE dst[k]]

\* What an uninitialised buffer of n elements holds: any content (seed g).
Garbage(g, n) == [k \in 1..n |-> (g + 7 * k) % 256]

\* What the graph run writes into output slot i (n elements).
Pattern(seed, i, n) == [k \in 1..n |-> (seed + 16 * i + k) % 256]

Zeros(n) == [k \in 1..n |-> 0]

\* whether a span of n elements at offset off lies inside the buffer
InBounds(buf, off, n) == n <= 0 \/ (off >= 0 /\ off + n <= Len(buf))

\* a read through a span: past the end of the buffer the bytes are whatever
\* lies behind it (seed g)
Rd(buf, idx, g) == IF idx + 1 \in DOMAIN buf THEN buf[idx + 1] ELSE (g + 3 * idx) % 256

\* std::span::subspan(off, n) read without a bounds check
Span(data, off, n, g) == [k \in 1..n |-> Rd(data, off + k - 1, g)]

\* the element types a graph declares for its cache inputs, and their byte size
Types == {"float", "float16", "uint8", "int32"}

SizeOf(type) ==
  CASE type = "float" -> 4 [] type = "float16" -> 2 [] type = "uint8" -> 1 [] type = "int32" -> 4

\* GetTensorData<T>() on a buffer whose elements have `from` bytes, T having
\* `to` bytes: the same bytes, read little-endian in units of `to`
Reinterpret(data, from, to) ==
  IF from = to THEN data
  ELSE IF from < to
  THEN [k \in 1..((Len(data) * from) \div to) |-> data[2 * k - 1] + 256 * data[2 * k]]
  ELSE [k \in 1..((Len(data) * from) \div to) |->
          IF k % 2 = 1 THEN data[(k + 1) \div 2] % 65536 ELSE data[k \div 2] \div 65536]

(***************************************************************************)
(* Results of calls that can throw.                                        *)
(***************************************************************************)
Return(v) == [threw |-> FALSE, value |-> v, what |-> "none"]

Throw(what) == [threw |-> TRUE, value |-> <<>>, what |-> what]

(***************************************************************************)
(* Name templating.  A template is a sequence of tokens: a one-character   *)
(* literal, the conversion "%d", the escape "%%", or the conversion "%s"   *)
(* (which does not match the int argument).  A name is a sequence of       *)
(* characters.                                                             *)
(***************************************************************************)
KeyValueNameLength == 64

Digits == <<"0", "1", "2", "3", "4", "5", "6", "7", "8", "9">>

\* what %d writes for an int
RECURSIVE Decimal(_)
Decimal(n) ==
  IF n < 0 THEN <<"-">> \o Decimal(0 - n)
  ELSE IF n < 10 THEN <<Digits[n + 1]>>
  ELSE Decimal(n \div 10) \o <<Digits[(n % 10) + 1]>>

WellFormed(template_string) ==
  \A k \in 1..Len(template_string) : template_string[k] # "%s"

\* the concatenation of the pieces lo..hi of a sequence of character runs
RECURSIVE Flatten(_, _, _)
Flatten(pieces, lo, hi) ==
  IF lo > hi THEN <<>>
  ELSE IF lo = hi THEN pieces[lo]
  ELSE Flatten(pieces, lo, (lo + hi) \div 2) \o Flatten(pieces, ((lo + hi) \div 2) + 1, hi)

\* the characters the format produces, given room for all of them
Formatted(template_string, index) ==
  Flatten([k \in 1..Len(template_string) |->
             IF template_string[k] = "%d" THEN Decimal(index)
             ELSE IF template_string[k] = "%%" THEN <<"%">>
             ELSE <<template_string[k]>>],
          1, Len(template_string))

\* snprintf(buffer, size, format, index) for a well-formed format: the return
\* value is the length of the whole output, the buffer holds at most size - 1
\* characters of it before the terminator
snprintf(size, template_string, index) ==
  LET full == Formatted(template_string, index)
  IN [length |-> Len(full),
      buffer |-> SubSeq(full, 1, IF Len(full) < size - 1 THEN Len(full) ELSE size - 1)]

\* mutant: a name that fills the whole buffer is accepted
ComposeFrom_AcceptFull(r) ==
  IF r.length < 0 \/ r.length > KeyValueNameLength
  THEN Throw("runtime_error")
  ELSE Return(r.buffer)

\* the test ComposeKeyValueName applies to snprintf's result
ComposeFrom(r) ==
  IF r.length < 0 \/ r.length >= KeyValueNameLength
  THEN Throw("runtime_error")
  ELSE Return(r.buffer)

ComposeKeyValueName(template_string, index) ==
  ComposeFrom(snprintf(KeyValueNameLength, template_string, index))

\* the template with every "%s" replaced by the characters junk
Subst(template_string, junk) ==
  Flatten([k \in 1..Len(template_string) |->
             IF template_string[k] = "%s" THEN junk ELSE <<template_string[k]>>],
          1, Len(template_string))

\* snprintf with a "%s" conversion given the int argument (undefined
\* behaviour) that returns: an error, or an output in which the conversion
\* produced whatever characters the stray pointer led to
snprintfUndefined(size, template_string, index) ==
  {[length |-> -1, buffer |-> <<>>]}
    \cup {snprintf(size, Subst(template_string, junk), index) :
            junk \in {<<>>, <<"?">>, [k \in 1..size |-> "?"]}}

(***************************************************************************)
(* The allocator: OrtValue::CreateTensor and unique_ptr release.           *)
(***************************************************************************)
\* OrtValue::CreateTensor<T>(allocator, shape)
AllocTyped(c, shape, data, type) ==
  [c EXCEPT !.heap = [h \in DOMAIN c.heap \cup {c.next} |->
                        IF h = c.next THEN [shape |-> shape, data |-> data, type |-> type]
                        ELSE c.heap[h]],
            !.next = c.next + 1]

\* OrtValue::CreateTensor(allocator, shape, type_)
Alloc(c, shape, data) == AllocTyped(c, shape, data, c.type_)

CreateTensor(c, shape, g) == Alloc(c, shape, Garbage(g, Prod(shape)))

\* ~unique_ptr: releases the tensor the pointer owned, if any
Release(c, h) ==
  IF h = Null THEN c
  ELSE [c EXCEPT !.heap = [x \in DOMAIN c.heap \ {h} |-> c.heap[x]]]

SetData(c, h, data) == [c EXCEPT !.heap[h].data = data]

BatchBeamSize(cfg) == cfg.batch_size * cfg.num_beams

(***************************************************************************)
(* What the constructors share: the naming loop, the declared type, and    *)
(* the outcome of a constructor that threw.                                *)
(***************************************************************************)
\* the naming loop: for each layer, one name per template, in order
RECURSIVE ComposeNames(_, _, _)
ComposeNames(templates, layer_count, i) ==
  IF i >= layer_count THEN <<>>
  ELSE [t \in 1..Len(templates) |-> ComposeKeyValueName(templates[t], i)]
         \o ComposeNames(templates, layer_count, i + 1)

AnyThrew(results) == \E k \in 1..Len(results) : results[k].threw

Values(results) == [k \in 1..Len(results) |-> results[k].value]

\* model_.session_info_->GetInputDataType(name): the type the graph declares
GetInputDataType(cfg, name) == cfg.input_type

\* a constructor that threw: no object exists, the members built so far are
\* destroyed; created counts the tensors it had created before the throw
Failed(variant, cfg, what, log, created) ==
  [kind |-> "failed", variant |-> variant, cfg |-> cfg, what |-> what,
   log |-> log, created |-> created, heap |-> <<>>]

\* the names other components registered in the State before the cache
ForeignInputName == <<"i", "d", "s">>
ForeignOutputName == <<"l", "o", "g">>

(***************************************************************************)
(* KV_Cache (the Split cache).                                             *)
(***************************************************************************)
\* memset(ptr, value, bytes) on a buffer whose elements take size bytes each
Memset(data, value, bytes, size) ==
  [k \in 1..Len(data) |-> IF k * size <= bytes THEN value ELSE data[k]]

\* mutant: the fill counts elements where bytes are wanted
kv_cache_size_bytes_Elements(c) ==
  c.shape_[1] * c.shape_[2] * c.shape_[3] * c.shape_[4]

kv_cache_size_bytes(c) ==
  SizeOf(c.type_) * c.shape_[1] * c.shape_[2] * c.shape_[3] * c.shape_[4]

RECURSIVE KV_CtorPresents(_, _)
KV_CtorPresents(c, i) ==
  IF i >= c.layer_count_ * 2 THEN c
  ELSE LET a == CreateTensor(c, c.shape_, 0)
           b == SetData(a, c.next, Memset(a.heap[c.next].data, 0, kv_cache_size_bytes(c),
                                          SizeOf(c.type_)))
       IN KV_CtorPresents([b EXCEPT !.presents_ = Append(c.presents_, c.next)], i + 1)

\* mutant: shared-buffer mode is whatever was requested
KV_ShareBuffer_AsRequested(cfg) == cfg.past_present_share_buffer

KV_ShareBuffer(cfg) ==
  cfg.past_present_share_buffer /\ (cfg.num_beams = 1 \/ cfg.type = "whisper")

\* mutant: the warning is logged whenever sharing was requested
KV_Warning_WheneverRequested(cfg, share) ==
  IF cfg.g_log.enabled /\ cfg.g_log.warning /\ cfg.past_present_share_buffer
  THEN <<"warning">> ELSE <<>>

\* what the constructor sends to Log
KV_Warning(cfg, share) ==
  IF cfg.g_log.enabled /\ cfg.g_log.warning /\ share # cfg.past_present_share_buffer
  THEN <<"warning">> ELSE <<>>

KV_Cache(cfg) ==
  LET shape0 == <<BatchBeamSize(cfg), cfg.num_key_value_heads, 0, cfg.head_size>>
      share == KV_ShareBuffer(cfg)
      log == KV_Warning(cfg, share)
      ins == ComposeNames(<<cfg.inputs.past_key_names, cfg.inputs.past_value_names>>,
                          cfg.num_hidden_layers, 0)
      outs == ComposeNames(<<cfg.outputs.present_key_names, cfg.outputs.present_value_names>>,
                           cfg.num_hidden_layers, 0)
      type == GetInputDataType(cfg, ins[1].value)
      c0 == [kind |-> "split",
             cfg |-> cfg,
             layer_count_ |-> cfg.num_hidden_layers,
             past_present_share_buffer_ |-> share,
             shape_ |-> shape0,
             type_ |-> type,
             input_name_strings_ |-> Values(ins),
             output_name_strings_ |-> Values(outs),
             empty_past_ |-> 1,
             pasts_ |-> [i \in 1..(cfg.num_hidden_layers * 2) |-> Null],
             presents_ |-> <<>>,
             input_index_ |-> -1,
             output_index_ |-> -1,
             added |-> FALSE,
             fault |-> FALSE,
             log |-> log,
             inputs_ |-> <<Foreign>>,
             outputs_ |-> <<Foreign>>,
             input_names_ |-> <<ForeignInputName>>,
             output_names_ |-> <<ForeignOutputName>>,
             heap |-> (1 :> [shape |-> shape0, data |-> <<>>, type |-> type]),
             next |-> 2]
      c1 == [c0 EXCEPT !.shape_[3] = IF share THEN cfg.max_length ELSE cfg.sequence_length]
  IN IF AnyThrew(ins) \/ AnyThrew(outs)
     THEN Failed("split", cfg, "runtime_error", log, 0)
     ELSE KV_CtorPresents(c1, 0)

RECURSIVE KV_AddLoop(_, _)
KV_AddLoop(c, i) ==
  IF i >= c.layer_count_ * 2 THEN c
  ELSE KV_AddLoop([c EXCEPT !.inputs_ = Append(c.inputs_, c.empty_past_),
                            !.input_names_ = Append(c.input_names_, c.input_name_strings_[i + 1]),
                            !.outputs_ = Append(c.outputs_, c.presents_[i + 1]),
                            !.output_names_ = Append(c.output_names_, c.output_name_strings_[i + 1])],
                  i + 1)

KV_AddShared(c) ==
  [c EXCEPT !.inputs_ = [k \in 1..Len(c.inputs_) |->
       IF k > c.input_index_ /\ k <= c.input_index_ + c.layer_count_ * 2
       THEN c.presents_[k - c.input_index_] ELSE c.inputs_[k]]]

KV_AddNoShare(c) ==
  KV_AddLoop([c EXCEPT !.input_index_ = Len(c.inputs_),
                       !.output_index_ = Len(c.outputs_),
                       !.added = TRUE], 0)

\* mutant: Add without the shared-buffer rebinding of the input slots
KV_Add_NoRebind(c) == KV_AddNoShare(c)

KV_Add(c) ==
  LET a == KV_AddNoShare(c)
  IN IF a.past_present_share_buffer_ THEN KV_AddShared(a) ELSE a

\* the dispatch of PickPastState: the element type the copy is instantiated for
ScoreType(type) == IF type = "float" THEN "float" ELSE "float16"

\* mutant: the copy ignores beam_indices (row j <- row j)
KV_PickLoop_NoGather(past, present, beam, j, block, g) ==
  Put(past, 0, Span(present, 0, Len(beam) * block, g))

\* the copy loop of PickPastState: past row j <- present row beam_indices[j]
RECURSIVE KV_PickLoop(_, _, _, _, _, _)
KV_PickLoop(past, present, beam, j, block, g) ==
  IF j >= Len(beam) THEN past
  ELSE KV_PickLoop(Put(past, j * block, Span(present, beam[j + 1] * block, block, g)),
                   present, beam, j + 1, block, g)

KV_PickPastState(c, beam, index, g) ==
  LET block == c.shape_[2] * c.shape_[3] * c.shape_[4]
      element_count == c.shape_[1] * block
      score == ScoreType(c.type_)
      present == Reinterpret(c.heap[c.presents_[index + 1]].data, SizeOf(c.type_), SizeOf(score))
      data == KV_PickLoop(Garbage(g, element_count), present, beam, 0, block, g)
      a == AllocTyped(c, c.shape_, data, score)
      old == c.pasts_[index + 1]
  IN Release([a EXCEPT !.pasts_[index + 1] = c.next], old)

\* mutant: the input slot is bound before the past is replaced
RECURSIVE KV_UpdatePasts_BindFirst(_, _, _, _)
KV_UpdatePasts_BindFirst(c, beam, i, g) ==
  IF i >= c.layer_count_ * 2 THEN c
  ELSE LET q == [c EXCEPT !.inputs_[c.input_index_ + i + 1] = c.pasts_[i + 1]]
           p == IF beam = <<>>
                THEN [Release(q, q.pasts_[i + 1]) EXCEPT
                        !.pasts_[i + 1] = q.presents_[i + 1],
                        !.presents_[i + 1] = Null]
                ELSE KV_PickPastState(q, beam, i, g)
       IN KV_UpdatePasts_BindFirst(p, beam, i + 1, g)

RECURSIVE KV_UpdatePasts(_, _, _, _)
KV_UpdatePasts(c, beam, i, g) ==
  IF i >= c.layer_count_ * 2 THEN c
  ELSE LET p == IF beam = <<>>
                THEN [Release(c, c.pasts_[i + 1]) EXCEPT
                        !.pasts_[i + 1] = c.presents_[i + 1],
                        !.presents_[i + 1] = Null]
                ELSE KV_PickPastState(c, beam, i, g)
           q == [p EXCEPT !.inputs_[p.input_index_ + i + 1] = p.pasts_[i + 1]]
       IN KV_UpdatePasts(q, beam, i + 1, g)

RECURSIVE KV_UpdatePresents(_, _, _)
KV_UpdatePresents(c, i, g) ==
  IF i >= c.layer_count_ * 2 THEN c
  ELSE LET a == CreateTensor(c, c.shape_, g)
           b == Release([a EXCEPT !.presents_[i + 1] = c.next], c.presents_[i + 1])
       IN KV_UpdatePresents([b EXCEPT !.outputs_[b.output_index_ + i + 1] = b.presents_[i + 1]],
                            i + 1, g)

\* mutant: the new presents are created before shape_[2] takes current_length
KV_UpdateNoShare_LengthAfter(c, beam, current_length, g) ==
  LET p == KV_UpdatePresents(KV_UpdatePasts(c, beam, 0, g), 0, g)
  IN [p EXCEPT !.shape_[3] = current_length]

KV_UpdateNoShare(c, beam, current_length, g) ==
  LET p == KV_UpdatePasts(c, beam, 0, g)
  IN KV_UpdatePresents([p EXCEPT !.shape_[3] = current_length], 0, g)

\* mutant: Update without the shared-buffer early exit
KV_Update_NoEarlyExit(c, beam, current_length, g) ==
  KV_UpdateNoShare(c, beam, current_length, g)

KV_Update(c, beam, current_length, g) ==
  IF c.past_present_share_buffer_ THEN c
  ELSE KV_UpdateNoShare(c, beam, current_length, g)

(***************************************************************************)
(* KV_Cache_Combined: one tensor per layer, key half then value half.      *)
(***************************************************************************)
RECURSIVE Combined_CtorPresents(_, _, _)
Combined_CtorPresents(c, i, g) ==
  IF i >= c.layer_count_ THEN c
  ELSE LET a == CreateTensor(c, c.shape_, g)
       IN Combined_CtorPresents([a EXCEPT !.presents_ = Append(c.presents_, c.next)], i + 1, g)

KV_Cache_Combined(cfg, g) ==
  LET shape0 == <<2, BatchBeamSize(cfg), cfg.num_key_value_heads, 0, cfg.head_size>>
      ins == ComposeNames(<<cfg.inputs.past_names>>, cfg.num_hidden_layers, 0)
      outs == ComposeNames(<<cfg.outputs.present_names>>, cfg.num_hidden_layers, 0)
      type == GetInputDataType(cfg, ins[1].value)
      c0 == [kind |-> "combined",
             cfg |-> cfg,
             layer_count_ |-> cfg.num_hidden_layers,
             past_present_share_buffer_ |-> FALSE,
             shape_ |-> shape0,
             type_ |-> type,
             input_name_strings_ |-> Values(ins),
             output_name_strings_ |-> Values(outs),
             empty_past_ |-> 1,
             pasts_ |-> [i \in 1..cfg.num_hidden_layers |-> Null],
             presents_ |-> <<>>,
             input_index_ |-> -1,
             output_index_ |-> -1,
             added |-> FALSE,
             fault |-> FALSE,
             log |-> <<>>,
             inputs_ |-> <<Foreign>>,
             outputs_ |-> <<Foreign>>,
             input_names_ |-> <<ForeignInputName>>,
             output_names_ |-> <<ForeignOutputName>>,
             heap |-> (1 :> [shape |-> shape0, data |-> <<>>, type |-> type]),
             next |-> 2]
  IN IF AnyThrew(ins) \/ AnyThrew(outs)
     THEN Failed("combined", cfg, "runtime_error", <<>>, 0)
     ELSE Combined_CtorPresents([c0 EXCEPT !.shape_[4] = cfg.sequence_length], 0, g)

RECURSIVE Combined_AddLoop(_, _)
Combined_AddLoop(c, i) ==
  IF i >= c.layer_count_ THEN c
  ELSE Combined_AddLoop(
         [c EXCEPT !.inputs_ = Append(c.inputs_, c.empty_past_),
                   !.input_names_ = Append(c.input_names_, c.input_name_strings_[i + 1]),
                   !.outputs_ = Append(c.outputs_, c.presents_[i + 1]),
                   !.output_names_ = Append(c.output_names_, c.output_name_strings_[i + 1])],
         i + 1)

Combined_Add(c) ==
  Combined_AddLoop([c EXCEPT !.input_index_ = Len(c.inputs_),
                             !.output_index_ = Len(c.outputs_),
                             !.added = TRUE], 0)

\* mutant: the value row is taken from the key half of the present
Combined_PickLoop_ValueFromKey(past, present, beam, j, block, past_key_size, g) ==
  [k \in 1..Len(past) |->
     IF (k - 1) \div block < Len(beam)
     THEN present[beam[((k - 1) \div block) + 1] * block + ((k - 1) % block) + 1]
     ELSE IF (k - 1 - past_key_size) \div block < Len(beam) /\ k > past_key_size
     THEN present[beam[((k - 1 - past_key_size) \div block) + 1] * block
                  + ((k - 1) % block) + 1]
     ELSE past[k]]

\* the copy loop of PickPastState: key row and value row j <- row beam_indices[j]
RECURSIVE Combined_PickLoop(_, _, _, _, _, _, _)
Combined_PickLoop(past, present, beam, j, block, past_key_size, g) ==
  IF j >= Len(beam) THEN past
  ELSE LET beam_index == beam[j + 1]
           present_key == Span(present, beam_index * block, block, g)
           present_value == Span(present, past_key_size + beam_index * block, block, g)
           k1 == Put(past, j * block, present_key)
           k2 == Put(k1, past_key_size + j * block, present_value)
       IN Combined_PickLoop(k2, present, beam, j + 1, block, past_key_size, g)

Combined_PickPastState(c, beam, index, g) ==
  LET block == c.shape_[3] * c.shape_[4] * c.shape_[5]
      past_key_size == c.shape_[2] * block
      element_count == c.shape_[1] * past_key_size
      score == ScoreType(c.type_)
      present == Reinterpret(c.heap[c.presents_[index + 1]].data, SizeOf(c.type_), SizeOf(score))
      data == Combined_PickLoop(Garbage(g, element_count), present, beam, 0, block,
                                past_key_size, g)
      a == AllocTyped(c, c.shape_, data, score)
      old == c.pasts_[index + 1]
  IN Release([a EXCEPT !.pasts_[index + 1] = c.next], old)

RECURSIVE Combined_UpdatePasts(_, _, _, _)
Combined_UpdatePasts(c, beam, i, g) ==
  IF i >= c.layer_count_ THEN c
  ELSE LET p == IF beam = <<>>
                THEN [Release(c, c.pasts_[i + 1]) EXCEPT
                        !.pasts_[i + 1] = c.presents_[i + 1],
                        !.presents_[i + 1] = Null]
                ELSE Combined_PickPastState(c, beam, i, g)
       IN Combined_UpdatePasts(p, beam, i + 1, g)

\* mutant: Update leaves the input slots bound to the tensors of the step before
RECURSIVE Combined_UpdatePresents_StaleInputs(_, _, _)
Combined_UpdatePresents_StaleInputs(c, i, g) ==
  IF i >= c.layer_count_ THEN c
  ELSE LET a == CreateTensor(c, c.shape_, g)
           b == Release([a EXCEPT !.presents_[i + 1] = c.next], c.presents_[i + 1])
       IN Combined_UpdatePresents_StaleInputs(
            [b EXCEPT !.outputs_[b.output_index_ + i + 1] = b.presents_[i + 1]], i + 1, g)

RECURSIVE Combined_UpdatePresents(_, _, _)
Combined_UpdatePresents(c, i, g) ==
  IF i >= c.layer_count_ THEN c
  ELSE LET a == CreateTensor(c, c.shape_, g)
           b == Release([a EXCEPT !.presents_[i + 1] = c.next], c.presents_[i + 1])
       IN Combined_UpdatePresents(
            [b EXCEPT !.inputs_[b.input_index_ + i + 1] = b.pasts_[i + 1],
                      !.outputs_[b.output_index_ + i + 1] = b.presents_[i + 1]],
            i + 1, g)

Combined_Update(c, beam, current_length, g) ==
  LET p == Combined_UpdatePasts(c, beam, 0, g)
  IN Combined_UpdatePresents([p EXCEPT !.shape_[4] = current_length], 0, g)

(***************************************************************************)
(* The session: construction, bind (Add), graph run, advance (Update).     *)
(***************************************************************************)
KVConfigs ==
  [num_hidden_layers : 1..MaxLayers,
   bb : BatchBeams,
   num_key_value_heads : {1},
   head_size : {1},
   sequence_length : 1..MaxLength,
   max_length : {MaxLength},
   past_present_share_buffer : BOOLEAN,
   type : ModelTypes]

\* model.decoder.inputs / outputs: the name templates of a configuration
DefaultInputs ==
  [past_names |-> <<"p", ".", "%d">>,
   past_key_names |-> <<"p", ".", "%d", ".", "k">>,
   past_value_names |-> <<"p", ".", "%d", ".", "v">>,
   cross_past_key_names |-> <<"p", ".", "%d", ".", "e", "k">>,
   cross_past_value_names |-> <<"p", ".", "%d", ".", "e", "v">>]

DefaultOutputs ==
  [present_names |-> <<"n", ".", "%d">>,
   present_key_names |-> <<"n", ".", "%d", ".", "k">>,
   present_value_names |-> <<"n", ".", "%d", ".", "v">>,
   cross_present_key_names |-> <<"n", ".", "%d", ".", "e", "k">>,
   cross_present_value_names |-> <<"n", ".", "%d", ".", "e", "v">>]

\* g_log as it is when logging was not configured
LogOff == [enabled |-> FALSE, warning |-> FALSE]

KVConfig(r) ==
  [num_hidden_layers |-> r.num_hidden_layers,
   batch_size |-> r.bb[1],
   num_beams |-> r.bb[2],
   num_key_value_heads |-> r.num_key_value_heads,
   head_size |-> r.head_size,
   sequence_length |-> r.sequence_length,
   max_length |-> r.max_length,
   past_present_share_buffer |-> r.past_present_share_buffer,
   type |-> r.type,
   inputs |-> DefaultInputs,
   outputs |-> DefaultOutputs,
   input_type |-> "float",
   g_log |-> LogOff]

\* beam_indices a search step hands to Update: none, or one source row per row
BeamLists(c) ==
  {<<>>} \cup [1..BatchBeamSize(c.cfg) -> 0..(BatchBeamSize(c.cfg) - 1)]

Identity(n) == [j \in 1..n |-> j - 1]

NoOp == [op |-> "none", beam |-> <<>>, len |-> 0]

\* the slots of the State that belong to the cache
SlotCount(c) == IF c.kind = "combined" THEN c.layer_count_ ELSE c.layer_count_ * 2

\* model.decoder.sliding_window_key_value_cache->pad_value
PadValues == {0}

\* no readback heap and no call under study
Idle == [kind |-> "none"]

GhostInit ==
  /\ prev = cache
  /\ atAdd = cache
  /\ lastOp = NoOp
  /\ nUpdates = 0
  /\ collapses = 0
  /\ readback = Idle
  /\ call = Idle
  /\ engine = Idle
  /\ java = Idle

\* Split caches whose constructor computed shared-buffer mode off
InitSplit ==
  /\ cache \in {KV_Cache(KVConfig(r)) :
                  r \in {x \in KVConfigs : ~KV_ShareBuffer(KVConfig(x)) /\ x.type = "llama"}}
  /\ GhostInit

\* Split caches whose constructor computed shared-buffer mode on
InitShared ==
  /\ cache \in {KV_Cache(KVConfig(r)) : r \in {x \in KVConfigs : KV_ShareBuffer(KVConfig(x))}}
  /\ GhostInit

InitCombined ==
  /\ cache \in {KV_Cache_Combined(KVConfig(r), g) :
                  r \in {x \in KVConfigs : ~x.past_present_share_buffer /\ x.type = "llama"},
                  g \in Seeds}
  /\ GhostInit

Add ==
  /\ cache.kind \in {"split", "combined"}
  /\ ~cache.added
  /\ cache' = IF cache.kind = "split" THEN KV_Add(cache) ELSE Combined_Add(cache)
  /\ atAdd' = cache'
  /\ prev' = cache
  /\ lastOp' = [NoOp EXCEPT !.op = "Add"]
  /\ UNCHANGED <<nUpdates, collapses, readback, call, engine, java>>

\* the graph run writes every tensor registered in one of the cache's output slots
RECURSIVE RunOutputs(_, _, _)
RunOutputs(c, i, seed) ==
  IF i >= SlotCount(c) THEN c
  ELSE LET h == c.outputs_[c.output_index_ + i + 1]
       IN RunOutputs(SetData(c, h, Pattern(seed, i, Prod(c.heap[h].shape))), i + 1, seed)

Run ==
  /\ cache.kind \in {"split", "combined"}
  /\ cache.added /\ ~cache.fault
  /\ lastOp.op # "Run"
  /\ nUpdates < MaxUpdates
  /\ \E seed \in Seeds : cache' = RunOutputs(cache, 0, seed)
  /\ lastOp' = [NoOp EXCEPT !.op = "Run"]
  /\ UNCHANGED <<prev, atAdd, nUpdates, collapses, readback, call, engine, java>>

Update ==
  /\ cache.kind \in {"split", "combined"}
  /\ cache.added /\ ~cache.fault
  /\ nUpdates < MaxUpdates
  /\ \E beam \in BeamLists(cache), current_length \in 1..MaxLength, g \in Seeds :
       /\ cache' = IF cache.kind = "split"
                   THEN KV_Update(cache, beam, current_length, g)
                   ELSE Combined_Update(cache, beam, current_length, g)
       /\ lastOp' = [op |-> "Update", beam |-> beam, len |-> current_length]
  /\ prev' = cache
  /\ nUpdates' = nUpdates + 1
  /\ UNCHANGED <<atAdd, collapses, readback, call, engine, java>>

Init == InitSplit \/ InitCombined

Next == Add \/ Run \/ Update

\* Combined caches and Split caches without shared buffers
Spec == Init /\ [][Next]_vars

\* Split caches in shared-buffer mode
SpecShared == InitShared /\ [][Next]_vars

\* the number of Updates followed when indices and types are unchecked
MaxAnyUpdates == 1

\* beam_indices as a caller can pass them: any int32 per row, here one below
\* and one above the valid rows as well
AnyBeamLists(c) ==
  {<<>>} \cup [1..BatchBeamSize(c.cfg) -> (0 - 1)..BatchBeamSize(c.cfg)]

InRange(beam, c) ==
  \A k \in 1..Len(beam) : beam[k] >= 0 /\ beam[k] < BatchBeamSize(c.cfg)

\* the present of slot i as PickPastState reads it
PresentSpan(c, i) ==
  Reinterpret(c.heap[c.presents_[i + 1]].data, SizeOf(c.type_), SizeOf(ScoreType(c.type_)))

\* whether PickPastState, given beam, reads a span that leaves the present
PickReadsOutOfBounds(c, beam) ==
  \E i \in 0..(SlotCount(c) - 1), j \in 1..Len(beam) :
    IF c.kind = "split"
    THEN LET block == c.shape_[2] * c.shape_[3] * c.shape_[4]
         IN ~InBounds(PresentSpan(c, i), beam[j] * block, block)
    ELSE LET block == c.shape_[3] * c.shape_[4] * c.shape_[5]
             past_key_size == c.shape_[2] * block
         IN \/ ~InBounds(PresentSpan(c, i), beam[j] * block, block)
            \/ ~InBounds(PresentSpan(c, i), past_key_size + beam[j] * block, block)

\* Update as the code takes it: no test of the indices or of the type
UpdateAny ==
  /\ cache.kind \in {"split", "combined"}
  /\ cache.added /\ ~cache.fault
  /\ nUpdates < MaxAnyUpdates
  /\ \E beam \in AnyBeamLists(cache), current_length \in 1..MaxLength, g \in Seeds :
       /\ cache' = IF cache.kind = "split"
                   THEN KV_Update(cache, beam, current_length, g)
                   ELSE Combined_Update(cache, beam, current_length, g)
       /\ lastOp' = [op |-> "Update", beam |-> beam, len |-> current_length]
  /\ prev' = cache
  /\ nUpdates' = nUpdates + 1
  /\ UNCHANGED <<atAdd, collapses, readback, call, engine, java>>

\* the out-of-bounds read of PickPastState faults instead of returning bytes
UpdateFault ==
  /\ cache.kind \in {"split", "combined"}
  /\ cache.added /\ ~cache.fault
  /\ nUpdates < MaxAnyUpdates
  /\ \E beam \in AnyBeamLists(cache), current_length \in 1..MaxLength :
       /\ PickReadsOutOfBounds(cache, beam)
       /\ lastOp' = [op |-> "Fault", beam |-> beam, len |-> current_length]
  /\ cache' = [cache EXCEPT !.fault = TRUE]
  /\ prev' = cache
  /\ UNCHANGED <<atAdd, nUpdates, collapses, readback, call, engine, java>>

\* Combined and non-shared Split caches over every declared element type
InitAny ==
  /\ cache \in {KV_Cache([KVConfig(r) EXCEPT !.input_type = t]) :
                  r \in {x \in KVConfigs : ~x.past_present_share_buffer /\ x.type = "llama"},
                  t \in Types}
              \cup {KV_Cache_Combined([KVConfig(r) EXCEPT !.input_type = t], g) :
                      r \in {x \in KVConfigs : ~x.past_present_share_buffer /\ x.type = "llama"},
                      t \in Types, g \in Seeds}
  /\ GhostInit

NextAny == Add \/ Run \/ UpdateAny \/ UpdateFault

\* the caches under any beam indices and any declared type
SpecAny == InitAny /\ [][NextAny]_vars

\* Split caches of every request, declared type and tensor geometry, as the
\* constructor returns them and as Add binds them
CtorConfigs ==
  {[KVConfig(r) EXCEPT !.input_type = t, !.num_key_value_heads = h, !.head_size = d] :
     r \in KVConfigs, t \in Types, h \in 1..MaxHeads, d \in 1..MaxHeadSize}

InitCtor ==
  /\ cache \in {KV_Cache(cfg) : cfg \in CtorConfigs}
  /\ GhostInit

SpecCtor == InitCtor /\ [][Add]_vars

\* g_log: logging on or off, warnings on or off
GLogs == [enabled : BOOLEAN, warning : BOOLEAN]

\* Split caches of every request (sharing asked for or not, beam width,
\* model type) under every logging setting
InitModes ==
  /\ cache \in {KV_Cache([KVConfig(r) EXCEPT !.g_log = l]) : r \in KVConfigs, l \in GLogs}
  /\ GhostInit

SpecModes == InitModes /\ [][Next]_vars

(***************************************************************************)
(* SlidingWindowKeyValueCache: per layer key-in, value-in (history) and    *)
(* key-out, value-out (newest window), all uint8.                          *)
(***************************************************************************)
\* std::copy(first, last, d_first) inside one buffer, element by element
RECURSIVE CopyWithin(_, _, _, _, _)
CopyWithin(buf, srcOff, dstOff, n, t) ==
  IF t >= n THEN buf
  ELSE CopyWithin([buf EXCEPT ![dstOff + t + 1] = buf[srcOff + t + 1]],
                  srcOff, dstOff, n, t + 1)

\* std::copy from one buffer into another
CopyInto(dst, dstOff, src, srcOff, n, g) ==
  [k \in 1..Len(dst) |->
     IF k > dstOff /\ k <= dstOff + n THEN Rd(src, srcOff + k - dstOff - 1, g) ELSE dst[k]]

Fill(n, v) == [k \in 1..n |-> v]

\* mutant: the fill stops one element short
fill_n_Short(data, count, value) ==
  [k \in 1..Len(data) |-> IF k <= count - 1 THEN value ELSE data[k]]

\* std::fill_n(first, count, value)
fill_n(data, count, value) ==
  [k \in 1..Len(data) |-> IF k <= count THEN value ELSE data[k]]

\* static_cast<uint8_t>(pad_value)
PadByte(cfg) == cfg.pad_value % 256

RECURSIVE SW_CtorLoop(_, _, _)
SW_CtorLoop(c, i, g) ==
  IF i >= c.layer_count_ THEN c
  ELSE LET k0 == CreateTensor(c, c.key_cache_shape_in_, g)
           ki == SetData(k0, c.next, fill_n(k0.heap[c.next].data,
                                            Prod(c.key_cache_shape_in_), PadByte(c.cfg)))
           v0 == CreateTensor(ki, c.value_cache_shape_in_, g)
           vi == SetData(v0, ki.next, fill_n(v0.heap[ki.next].data,
                                             Prod(c.value_cache_shape_in_), PadByte(c.cfg)))
           ko == CreateTensor(vi, c.key_cache_shape_out_, g)
           vo == CreateTensor(ko, c.value_cache_shape_out_, g)
       IN SW_CtorLoop([vo EXCEPT !.key_caches_in_ = Append(c.key_caches_in_, c.next),
                                 !.value_caches_in_ = Append(c.value_caches_in_, ki.next),
                                 !.key_caches_out_ = Append(c.key_caches_out_, vi.next),
                                 !.value_caches_out_ = Append(c.value_caches_out_, ko.next)],
                      i + 1, g)

\* mutant: the constructor accepts every declared type
SW_TypeCheck_None(type) == Return(type)

\* the constructor's test of the declared type
SW_TypeCheck(type) ==
  IF type # "uint8" THEN Throw("runtime_error") ELSE Return(type)

SlidingWindowKeyValueCache(cfg, g) ==
  LET ins == ComposeNames(<<cfg.inputs.past_key_names, cfg.inputs.past_value_names>>,
                          cfg.num_hidden_layers, 0)
      outs == ComposeNames(<<cfg.outputs.present_key_names, cfg.outputs.present_value_names>>,
                           cfg.num_hidden_layers, 0)
      type == GetInputDataType(cfg, ins[1].value)
      c0 == [kind |-> "sliding",
             cfg |-> cfg,
             layer_count_ |-> cfg.num_hidden_layers,
             past_present_share_buffer_ |-> FALSE,
             type_ |-> type,
             input_name_strings_ |-> Values(ins),
             output_name_strings_ |-> Values(outs),
             log |-> <<>>,
             input_names_ |-> <<ForeignInputName>>,
             output_names_ |-> <<ForeignOutputName>>,
             window_size_ |-> cfg.window_size,
             key_cache_shape_in_ |-> <<cfg.num_key_value_heads, 1, cfg.head_size,
                                       cfg.context_length - cfg.window_size>>,
             key_cache_shape_out_ |-> <<cfg.num_key_value_heads, 1, cfg.head_size,
                                        cfg.window_size>>,
             value_cache_shape_in_ |-> <<cfg.num_key_value_heads, 1,
                                         cfg.context_length - cfg.window_size, cfg.head_size>>,
             value_cache_shape_out_ |-> <<cfg.num_key_value_heads, 1,
                                          cfg.window_size, cfg.head_size>>,
             key_caches_in_ |-> <<>>,
             key_caches_out_ |-> <<>>,
             value_caches_in_ |-> <<>>,
             value_caches_out_ |-> <<>>,
             input_index_ |-> -1,
             output_index_ |-> -1,
             added |-> FALSE,
             fault |-> FALSE,
             inputs_ |-> <<Foreign>>,
             outputs_ |-> <<Foreign>>,
             heap |-> <<>>,
             next |-> 1]
  IN IF AnyThrew(ins) \/ AnyThrew(outs) \/ SW_TypeCheck(type).threw
     THEN Failed("sliding", cfg, "runtime_error", <<>>, 0)
     ELSE SW_CtorLoop(c0, 0, g)

\* mutant: the value slots are registered under the key names
RECURSIVE SW_AddLoop_KeyNameTwice(_, _)
SW_AddLoop_KeyNameTwice(c, layer_idx) ==
  IF layer_idx >= c.layer_count_ THEN c
  ELSE SW_AddLoop_KeyNameTwice(
         [c EXCEPT !.inputs_ = c.inputs_ \o <<c.key_caches_in_[layer_idx + 1],
                                              c.value_caches_in_[layer_idx + 1]>>,
                   !.input_names_ = c.input_names_
                                      \o <<c.input_name_strings_[2 * layer_idx + 1],
                                           c.input_name_strings_[2 * layer_idx + 1]>>,
                   !.outputs_ = c.outputs_ \o <<c.key_caches_out_[layer_idx + 1],
                                                c.value_caches_out_[layer_idx + 1]>>,
                   !.output_names_ = c.output_names_
                                       \o <<c.output_name_strings_[2 * layer_idx + 1],
                                            c.output_name_strings_[2 * layer_idx + 1]>>],
         layer_idx + 1)

RECURSIVE SW_AddLoop(_, _)
SW_AddLoop(c, layer_idx) ==
  IF layer_idx >= c.layer_count_ THEN c
  ELSE SW_AddLoop(
         [c EXCEPT !.inputs_ = c.inputs_ \o <<c.key_caches_in_[layer_idx + 1],
                                              c.value_caches_in_[layer_idx + 1]>>,
                   !.input_names_ = c.input_names_
                                      \o <<c.input_name_strings_[2 * layer_idx + 1],
                                           c.input_name_strings_[2 * layer_idx + 2]>>,
                   !.outputs_ = c.outputs_ \o <<c.key_caches_out_[layer_idx + 1],
                                                c.value_caches_out_[layer_idx + 1]>>,
                   !.output_names_ = c.output_names_
                                       \o <<c.output_name_strings_[2 * layer_idx + 1],
                                            c.output_name_strings_[2 * layer_idx + 2]>>],
         layer_idx + 1)

SW_Add(c) ==
  SW_AddLoop([c EXCEPT !.input_index_ = Len(c.inputs_),
                       !.output_index_ = Len(c.outputs_),
                       !.added = TRUE], 0)

\* Slide, key rows: shift the row left by window_size_, append the out row
RECURSIVE SW_SlideKeyRows(_, _, _, _, _, _)
SW_SlideKeyRows(in, out, j, chunks, c, g) ==
  IF j >= chunks THEN in
  ELSE LET len == c.key_cache_shape_in_[4]
           w == c.window_size_
           a == CopyWithin(in, j * len + w, j * len, len - w, 0)
           b == CopyInto(a, j * len + len - w, out, j * c.key_cache_shape_out_[4], w, g)
       IN SW_SlideKeyRows(b, out, j + 1, chunks, c, g)

\* mutant: the value shift moves by window_size_ elements instead of
\* window_size_ positions of head_size elements
RECURSIVE SW_SlideValueHeads_ShiftElements(_, _, _, _, _)
SW_SlideValueHeads_ShiftElements(in, out, j, c, g) ==
  IF j >= c.value_cache_shape_in_[1] THEN in
  ELSE LET s2 == c.value_cache_shape_in_[3]
           s3 == c.value_cache_shape_in_[4]
           w == c.window_size_
           a == CopyWithin(in, j * s2 * s3 + w, j * s2 * s3, (s2 - w) * s3, 0)
           b == CopyInto(a, j * s2 * s3 + (s2 - w) * s3, out,
                         j * c.value_cache_shape_out_[3] * c.value_cache_shape_out_[4],
                         w * c.value_cache_shape_out_[4], g)
       IN SW_SlideValueHeads_ShiftElements(b, out, j + 1, c, g)

\* Slide, value heads: shift the head block up by window_size_ positions,
\* append the out block
RECURSIVE SW_SlideValueHeads(_, _, _, _, _)
SW_SlideValueHeads(in, out, j, c, g) ==
  IF j >= c.value_cache_shape_in_[1] THEN in
  ELSE LET s2 == c.value_cache_shape_in_[3]
           s3 == c.value_cache_shape_in_[4]
           w == c.window_size_
           a == CopyWithin(in, j * s2 * s3 + w * s3, j * s2 * s3, (s2 - w) * s3, 0)
           b == CopyInto(a, j * s2 * s3 + (s2 - w) * s3, out,
                         j * c.value_cache_shape_out_[3] * c.value_cache_shape_out_[4],
                         w * c.value_cache_shape_out_[4], g)
       IN SW_SlideValueHeads(b, out, j + 1, c, g)

RECURSIVE SW_SlideLoop(_, _, _)
SW_SlideLoop(c, layer_idx, g) ==
  IF layer_idx >= c.layer_count_ THEN c
  ELSE LET ki == c.key_caches_in_[layer_idx + 1]
           ko == c.key_caches_out_[layer_idx + 1]
           vi == c.value_caches_in_[layer_idx + 1]
           vo == c.value_caches_out_[layer_idx + 1]
           num_key_cache_chunks == c.key_cache_shape_in_[1] * c.key_cache_shape_in_[3]
           k == SetData(c, ki, SW_SlideKeyRows(c.heap[ki].data, c.heap[ko].data, 0,
                                               num_key_cache_chunks, c, g))
           v == SetData(k, vi, SW_SlideValueHeads(c.heap[vi].data, c.heap[vo].data, 0, c, g))
       IN SW_SlideLoop(v, layer_idx + 1, g)

SW_Slide(c, g) == SW_SlideLoop(c, 0, g)

updated_window_size == 1

\* mutant: the new out shapes keep the configured window
SW_UpdatedShapes_WindowOut(c) ==
  [key_in |-> <<c.cfg.num_key_value_heads, 1, c.cfg.head_size,
                c.cfg.context_length - updated_window_size>>,
   value_in |-> <<c.cfg.num_key_value_heads, 1,
                  c.cfg.context_length - updated_window_size, c.cfg.head_size>>,
   key_out |-> <<c.cfg.num_key_value_heads, 1, c.cfg.head_size, c.window_size_>>,
   value_out |-> <<c.cfg.num_key_value_heads, 1, c.window_size_, c.cfg.head_size>>]

SW_UpdatedShapes(c) ==
  [key_in |-> <<c.cfg.num_key_value_heads, 1, c.cfg.head_size,
                c.cfg.context_length - updated_window_size>>,
   value_in |-> <<c.cfg.num_key_value_heads, 1,
                  c.cfg.context_length - updated_window_size, c.cfg.head_size>>,
   key_out |-> <<c.cfg.num_key_value_heads, 1, c.cfg.head_size, updated_window_size>>,
   value_out |-> <<c.cfg.num_key_value_heads, 1, updated_window_size, c.cfg.head_size>>]

\* mutant: the out row is appended one element too far right
RECURSIVE SW_CollapseKeyRows_TailOffByOne(_, _, _, _, _, _, _)
SW_CollapseKeyRows_TailOffByOne(new, in, out, j, chunks, c, g) ==
  IF j >= chunks THEN new
  ELSE LET ulen == SW_UpdatedShapes(c).key_in[4]
           a == CopyInto(new, j * ulen, in,
                         j * c.key_cache_shape_in_[4] + updated_window_size,
                         c.key_cache_shape_in_[4] - updated_window_size, g)
           b == CopyInto(a, j * ulen + c.key_cache_shape_in_[4], out,
                         j * c.key_cache_shape_out_[4], c.window_size_, g)
       IN SW_CollapseKeyRows_TailOffByOne(b, in, out, j + 1, chunks, c, g)

\* mutant: every row is completed with the first row of the old key-out
RECURSIVE SW_CollapseKeyRows_FirstOutRow(_, _, _, _, _, _, _)
SW_CollapseKeyRows_FirstOutRow(new, in, out, j, chunks, c, g) ==
  IF j >= chunks THEN new
  ELSE LET ulen == SW_UpdatedShapes(c).key_in[4]
           a == CopyInto(new, j * ulen, in,
                         j * c.key_cache_shape_in_[4] + updated_window_size,
                         c.key_cache_shape_in_[4] - updated_window_size, g)
           b == CopyInto(a, j * ulen + c.key_cache_shape_in_[4] - updated_window_size, out,
                         0, c.window_size_, g)
       IN SW_CollapseKeyRows_FirstOutRow(b, in, out, j + 1, chunks, c, g)

\* the elements of the new key-in that the two copies of chunk j write: the
\* first as many as its source span holds, the second window_size_
SW_KeyCollapseWrites(c, j) ==
  LET ulen == SW_UpdatedShapes(c).key_in[4]
  IN <<[off |-> j * ulen, n |-> c.key_cache_shape_in_[4] - updated_window_size],
       [off |-> j * ulen + c.key_cache_shape_in_[4] - updated_window_size,
        n |-> c.window_size_]>>

\* collapse, key rows: new row = old in row from element 1, then the out row
RECURSIVE SW_CollapseKeyRows(_, _, _, _, _, _, _)
SW_CollapseKeyRows(new, in, out, j, chunks, c, g) ==
  IF j >= chunks THEN new
  ELSE LET ulen == SW_UpdatedShapes(c).key_in[4]
           a == CopyInto(new, j * ulen, in,
                         j * c.key_cache_shape_in_[4] + updated_window_size,
                         c.key_cache_shape_in_[4] - updated_window_size, g)
           b == CopyInto(a, j * ulen + c.key_cache_shape_in_[4] - updated_window_size, out,
                         j * c.key_cache_shape_out_[4], c.window_size_, g)
       IN SW_CollapseKeyRows(b, in, out, j + 1, chunks, c, g)

\* the offset in the old value-in at which head j's history is read
SW_ValueHistoryOffset(c, j) ==
  j * c.value_cache_shape_out_[3] * c.value_cache_shape_out_[4]
    + updated_window_size * c.value_cache_shape_out_[4]

SW_ValueHistoryLength(c) ==
  (c.value_cache_shape_in_[3] - updated_window_size) * c.value_cache_shape_in_[4]

\* mutant: the out block of head j is read with the stride of the new out shape
RECURSIVE SW_CollapseValueHeads_OutStride(_, _, _, _, _, _)
SW_CollapseValueHeads_OutStride(new, in, out, j, c, g) ==
  IF j >= SW_UpdatedShapes(c).value_in[1] THEN new
  ELSE LET u == SW_UpdatedShapes(c).value_in
           a == CopyInto(new, j * u[3] * u[4], in, SW_ValueHistoryOffset(c, j),
                         SW_ValueHistoryLength(c), g)
           b == CopyInto(a, j * u[3] * u[4]
                              + (c.value_cache_shape_in_[3] - updated_window_size) * u[4],
                         out, j * updated_window_size * c.value_cache_shape_out_[4],
                         c.window_size_ * c.value_cache_shape_out_[4], g)
       IN SW_CollapseValueHeads_OutStride(b, in, out, j + 1, c, g)

\* collapse, value heads
RECURSIVE SW_CollapseValueHeads(_, _, _, _, _, _)
SW_CollapseValueHeads(new, in, out, j, c, g) ==
  IF j >= SW_UpdatedShapes(c).value_in[1] THEN new
  ELSE LET u == SW_UpdatedShapes(c).value_in
           a == CopyInto(new, j * u[3] * u[4], in, SW_ValueHistoryOffset(c, j),
                         SW_ValueHistoryLength(c), g)
           b == CopyInto(a, j * u[3] * u[4]
                              + (c.value_cache_shape_in_[3] - updated_window_size) * u[4],
                         out, j * c.value_cache_shape_out_[3] * c.value_cache_shape_out_[4],
                         c.window_size_ * c.value_cache_shape_out_[4], g)
       IN SW_CollapseValueHeads(b, in, out, j + 1, c, g)

RECURSIVE SW_CollapseLoop(_, _, _)
SW_CollapseLoop(c, layer_idx, g) ==
  IF layer_idx >= c.layer_count_ THEN c
  ELSE LET u == SW_UpdatedShapes(c)
           oki == c.key_caches_in_[layer_idx + 1]
           oko == c.key_caches_out_[layer_idx + 1]
           ovi == c.value_caches_in_[layer_idx + 1]
           ovo == c.value_caches_out_[layer_idx + 1]
           kdata == SW_CollapseKeyRows(Garbage(g, Prod(u.key_in)), c.heap[oki].data,
                                       c.heap[oko].data, 0, u.key_in[1] * u.key_in[3], c, g)
           k1 == Release([Alloc(c, u.key_in, kdata) EXCEPT
                            !.key_caches_in_[layer_idx + 1] = c.next], oki)
           k2 == Release([CreateTensor(k1, u.key_out, g) EXCEPT
                            !.key_caches_out_[layer_idx + 1] = k1.next], oko)
           vdata == SW_CollapseValueHeads(Garbage(g, Prod(u.value_in)), c.heap[ovi].data,
                                          c.heap[ovo].data, 0, c, g)
           v1 == Release([Alloc(k2, u.value_in, vdata) EXCEPT
                            !.value_caches_in_[layer_idx + 1] = k2.next], ovi)
           v2 == Release([CreateTensor(v1, u.value_out, g) EXCEPT
                            !.value_caches_out_[layer_idx + 1] = v1.next], ovo)
       IN SW_CollapseLoop(v2, layer_idx + 1, g)

\* mutant: the slots are written one position behind the cache's block
RECURSIVE SW_RebindLoop_Shifted(_, _)
SW_RebindLoop_Shifted(c, layer_idx) ==
  IF layer_idx >= c.layer_count_ THEN c
  ELSE SW_RebindLoop_Shifted(
         [c EXCEPT !.inputs_[c.input_index_ + 2 * layer_idx] = c.key_caches_in_[layer_idx + 1],
                   !.inputs_[c.input_index_ + 2 * layer_idx + 1] = c.value_caches_in_[layer_idx + 1],
                   !.outputs_[c.output_index_ + 2 * layer_idx] = c.key_caches_out_[layer_idx + 1],
                   !.outputs_[c.output_index_ + 2 * layer_idx + 1] = c.value_caches_out_[layer_idx + 1]],
         layer_idx + 1)

RECURSIVE SW_RebindLoop(_, _)
SW_RebindLoop(c, layer_idx) ==
  IF layer_idx >= c.layer_count_ THEN c
  ELSE SW_RebindLoop(
         [c EXCEPT !.inputs_[c.input_index_ + 2 * layer_idx + 1] = c.key_caches_in_[layer_idx + 1],
                   !.inputs_[c.input_index_ + 2 * layer_idx + 2] = c.value_caches_in_[layer_idx + 1],
                   !.outputs_[c.output_index_ + 2 * layer_idx + 1] = c.key_caches_out_[layer_idx + 1],
                   !.outputs_[c.output_index_ + 2 * layer_idx + 2] = c.value_caches_out_[layer_idx + 1]],
         layer_idx + 1)

\* mutant: the collapse forgets window_size_ = 1
SW_Collapse_KeepWindow(c, g) ==
  LET u == SW_UpdatedShapes(c)
      d == SW_CollapseLoop(c, 0, g)
  IN SW_RebindLoop([d EXCEPT !.key_cache_shape_in_ = u.key_in,
                             !.value_cache_shape_in_ = u.value_in,
                             !.key_cache_shape_out_ = u.key_out,
                             !.value_cache_shape_out_ = u.value_out], 0)

SW_Collapse(c, g) ==
  LET u == SW_UpdatedShapes(c)
      d == SW_CollapseLoop(c, 0, g)
  IN SW_RebindLoop([d EXCEPT !.window_size_ = 1,
                             !.key_cache_shape_in_ = u.key_in,
                             !.value_cache_shape_in_ = u.value_in,
                             !.key_cache_shape_out_ = u.key_out,
                             !.value_cache_shape_out_ = u.value_out], 0)

\* mutant: Update without the window_size_ == 1 test
SW_Update_AlwaysCollapse(c, g) ==
  SW_RebindLoop(SW_CollapseLoop(c, 0, g), 0)

SW_Update(c, g) ==
  IF c.window_size_ = 1 THEN SW_Slide(c, g) ELSE SW_Collapse(c, g)

\* whether the collapse reads its value history past the end of the old value-in
SW_CollapseReadsOutOfBounds(c) ==
  /\ c.window_size_ # 1
  /\ \E j \in 0..(c.cfg.num_key_value_heads - 1) :
       ~InBounds(c.heap[c.value_caches_in_[1]].data, SW_ValueHistoryOffset(c, j),
                 SW_ValueHistoryLength(c))

SWConfigs ==
  {r \in [num_hidden_layers : 1..MaxLayers,
          num_key_value_heads : 1..MaxHeads,
          head_size : 1..MaxHeadSize,
          context_length : 2..MaxContext,
          window_size : 1..MaxContext,
          pad_value : PadValues] : r.window_size < r.context_length}

\* the fields of a sliding-window configuration the model varies, completed
SWConfig(r) ==
  [num_hidden_layers |-> r.num_hidden_layers,
   num_key_value_heads |-> r.num_key_value_heads,
   head_size |-> r.head_size,
   context_length |-> r.context_length,
   window_size |-> r.window_size,
   pad_value |-> r.pad_value,
   inputs |-> DefaultInputs,
   outputs |-> DefaultOutputs,
   input_type |-> "uint8",
   g_log |-> LogOff]

InitSW ==
  /\ cache \in {SlidingWindowKeyValueCache(SWConfig(r), g) : r \in SWConfigs, g \in Seeds}
  /\ GhostInit

AddSW ==
  /\ cache.kind = "sliding"
  /\ ~cache.added
  /\ cache' = SW_Add(cache)
  /\ atAdd' = cache'
  /\ prev' = cache
  /\ lastOp' = [NoOp EXCEPT !.op = "Add"]
  /\ UNCHANGED <<nUpdates, collapses, readback, call, engine, java>>

RunSW ==
  /\ cache.kind = "sliding"
  /\ cache.added /\ ~cache.fault
  /\ lastOp.op # "Run"
  /\ nUpdates < MaxUpdates
  /\ \E seed \in Seeds : cache' = RunOutputs(cache, 0, seed)
  /\ lastOp' = [NoOp EXCEPT !.op = "Run"]
  /\ UNCHANGED <<prev, atAdd, nUpdates, collapses, readback, call, engine, java>>

UpdateSW ==
  /\ cache.kind = "sliding"
  /\ cache.added /\ ~cache.fault
  /\ nUpdates < MaxUpdates
  /\ \E g \in Seeds : cache' = SW_Update(cache, g)
  /\ lastOp' = [NoOp EXCEPT !.op = "Update"]
  /\ prev' = cache
  /\ nUpdates' = nUpdates + 1
  /\ collapses' = collapses + (IF cache.window_size_ = 1 THEN 0 ELSE 1)
  /\ UNCHANGED <<atAdd, readback, call, engine, java>>

\* the out-of-bounds read of the collapse faults instead of returning bytes
UpdateSWFault ==
  /\ cache.kind = "sliding"
  /\ cache.added /\ ~cache.fault
  /\ nUpdates < MaxUpdates
  /\ SW_CollapseReadsOutOfBounds(cache)
  /\ cache' = [cache EXCEPT !.fault = TRUE]
  /\ lastOp' = [NoOp EXCEPT !.op = "Fault"]
  /\ prev' = cache
  /\ UNCHANGED <<atAdd, nUpdates, collapses, readback, call, engine, java>>

NextSW == AddSW \/ RunSW \/ UpdateSW \/ UpdateSWFault

\* Sliding-window caches
SpecSW == InitSW /\ [][NextSW]_vars

\* another component registers an input and an output of its own after the
\* cache's Add (state_.inputs_.push_back and the like, outside the cache)
Register ==
  /\ cache.kind \in {"split", "combined", "sliding"}
  /\ cache.added /\ lastOp.op = "Add"
  /\ cache' = [cache EXCEPT !.inputs_ = Append(cache.inputs_, Foreign),
                            !.input_names_ = Append(cache.input_names_, ForeignInputName),
                            !.outputs_ = Append(cache.outputs_, Foreign),
                            !.output_names_ = Append(cache.output_names_, ForeignOutputName)]
  /\ lastOp' = [NoOp EXCEPT !.op = "Register"]
  /\ UNCHANGED <<prev, atAdd, nUpdates, collapses, readback, call, engine, java>>

InitFrame == InitSplit \/ InitShared \/ InitCombined \/ InitSW

NextFrame ==
  Add \/ AddSW \/ Register \/ Run \/ RunSW \/ Update \/ UpdateSW \/ UpdateSWFault

\* every cache that has an Update, inside a State that other components
\* registered slots in before and after the cache
SpecFrame == InitFrame /\ [][NextFrame]_vars

\* pad values a configuration can hold: inside and outside the range of a byte
CtorPadValues == {0, 255, 300, 0 - 1}

\* sliding-window caches as the constructor returns them and as Add binds them
InitSWCtor ==
  /\ cache \in {SlidingWindowKeyValueCache([SWConfig(r) EXCEPT !.pad_value = p], g) :
                  r \in SWConfigs, p \in CtorPadValues, g \in Seeds}
  /\ GhostInit

SpecSWCtor == InitSWCtor /\ [][AddSW]_vars

(***************************************************************************)
(* Cross_Cache: the static encoder-output tensors, a key and a value per   *)
(* layer.                                                                  *)
(***************************************************************************)
EncoderSequenceLength == 1500

RECURSIVE Cross_CtorLoop(_, _, _)
Cross_CtorLoop(c, i, g) ==
  IF i >= c.layer_count_ THEN c
  ELSE LET k == CreateTensor(c, c.shape_, g)
           v == CreateTensor(k, c.shape_, g)
       IN Cross_CtorLoop([v EXCEPT !.values_ = c.values_ \o <<c.next, k.next>>], i + 1, g)

Cross_Cache(cfg, g) ==
  LET ins == ComposeNames(<<cfg.inputs.cross_past_key_names, cfg.inputs.cross_past_value_names>>,
                          cfg.num_hidden_layers, 0)
      outs == ComposeNames(<<cfg.outputs.cross_present_key_names,
                             cfg.outputs.cross_present_value_names>>,
                           cfg.num_hidden_layers, 0)
      c0 == [kind |-> "cross",
             cfg |-> cfg,
             layer_count_ |-> cfg.num_hidden_layers,
             shape_ |-> <<BatchBeamSize(cfg), cfg.num_key_value_heads, EncoderSequenceLength,
                          cfg.head_size>>,
             type_ |-> GetInputDataType(cfg, ins[1].value),
             input_name_strings_ |-> Values(ins),
             output_name_strings_ |-> Values(outs),
             values_ |-> <<>>,
             log |-> <<>>,
             inputs_ |-> <<Foreign>>,
             outputs_ |-> <<Foreign>>,
             input_names_ |-> <<ForeignInputName>>,
             output_names_ |-> <<ForeignOutputName>>,
             heap |-> <<>>,
             next |-> 1]
  IN IF AnyThrew(ins) \/ AnyThrew(outs)
     THEN Failed("cross", cfg, "runtime_error", <<>>, 0)
     ELSE Cross_CtorLoop(c0, 0, g)

\* mutant: AddOutputs registers the tensors of the layers in reverse order
RECURSIVE Cross_AddOutputs_Reversed(_, _)
Cross_AddOutputs_Reversed(c, i) ==
  IF i >= c.layer_count_ * 2 THEN c
  ELSE Cross_AddOutputs_Reversed(
         [c EXCEPT !.outputs_ = Append(c.outputs_, c.values_[c.layer_count_ * 2 - i]),
                   !.output_names_ = Append(c.output_names_, c.output_name_strings_[i + 1])],
         i + 1)

RECURSIVE Cross_AddOutputs(_, _)
Cross_AddOutputs(c, i) ==
  IF i >= c.layer_count_ * 2 THEN c
  ELSE Cross_AddOutputs(
         [c EXCEPT !.outputs_ = Append(c.outputs_, c.values_[i + 1]),
                   !.output_names_ = Append(c.output_names_, c.output_name_strings_[i + 1])],
         i + 1)

RECURSIVE Cross_AddInputs(_, _)
Cross_AddInputs(c, i) ==
  IF i >= c.layer_count_ * 2 THEN c
  ELSE Cross_AddInputs(
         [c EXCEPT !.inputs_ = Append(c.inputs_, c.values_[i + 1]),
                   !.input_names_ = Append(c.input_names_, c.input_name_strings_[i + 1])],
         i + 1)

(***************************************************************************)
(* Construction and binding of every cache variant, over name templates    *)
(* and declared element types.                                             *)
(***************************************************************************)
MaxBindLayers == 3
MaxBinds == 3

Lit(n, ch) == [k \in 1..n |-> ch]

\* name templates: the default ones; ones without the layer index; one
\* template used for key and value alike; ones too long for a name
NameSchemes ==
  {[inputs |-> DefaultInputs, outputs |-> DefaultOutputs],
   [inputs |-> [past_names |-> <<"p">>,
                past_key_names |-> <<"p", "k">>,
                past_value_names |-> <<"p", "v">>,
                cross_past_key_names |-> <<"e", "k">>,
                cross_past_value_names |-> <<"e", "v">>],
    outputs |-> DefaultOutputs],
   [inputs |-> DefaultInputs,
    outputs |-> [present_names |-> <<"n", ".", "%d">>,
                 present_key_names |-> <<"n", ".", "%d">>,
                 present_value_names |-> <<"n", ".", "%d">>,
                 cross_present_key_names |-> <<"n", ".", "%d">>,
                 cross_present_value_names |-> <<"n", ".", "%d">>]],
   [inputs |-> [past_names |-> Lit(KeyValueNameLength, "x") \o <<"%d">>,
                past_key_names |-> Lit(KeyValueNameLength, "x") \o <<"%d">>,
                past_value_names |-> <<"p", ".", "%d", ".", "v">>,
                cross_past_key_names |-> Lit(KeyValueNameLength, "x") \o <<"%d">>,
                cross_past_value_names |-> <<"p", ".", "%d", ".", "e", "v">>],
    outputs |-> DefaultOutputs]}

BindConfigs ==
  {[KVConfig([num_hidden_layers |-> l, bb |-> bb, num_key_value_heads |-> 1, head_size |-> 1,
              sequence_length |-> 1, max_length |-> MaxLength,
              past_present_share_buffer |-> share, type |-> "llama"])
      EXCEPT !.inputs = n.inputs, !.outputs = n.outputs, !.input_type = t] :
     l \in 1..MaxBindLayers, bb \in BatchBeams, share \in BOOLEAN, n \in NameSchemes, t \in Types}

SWBindConfigs ==
  {[SWConfig([num_hidden_layers |-> l, num_key_value_heads |-> 1, head_size |-> 1,
              context_length |-> 3, window_size |-> 2, pad_value |-> 0])
      EXCEPT !.inputs = n.inputs, !.outputs = n.outputs, !.input_type = t] :
     l \in 1..MaxBindLayers, n \in NameSchemes, t \in Types}

InitBind ==
  /\ cache \in {KV_Cache(c) : c \in BindConfigs}
              \cup {KV_Cache_Combined(c, g) : c \in {x \in BindConfigs : ~x.past_present_share_buffer},
                                              g \in Seeds}
              \cup {Cross_Cache(c, g) : c \in {x \in BindConfigs : ~x.past_present_share_buffer},
                                        g \in Seeds}
              \cup {SlidingWindowKeyValueCache(c, g) : c \in SWBindConfigs, g \in Seeds}
  /\ GhostInit

\* the slots the cache has registered so far
Registered(c) == Len(c.inputs_) + Len(c.outputs_) - 2

AddOutputs ==
  /\ cache.kind = "cross"
  /\ Registered(cache) < MaxBinds * 2 * cache.layer_count_
  /\ cache' = Cross_AddOutputs(cache, 0)
  /\ prev' = cache
  /\ lastOp' = [NoOp EXCEPT !.op = "AddOutputs"]
  /\ UNCHANGED <<atAdd, nUpdates, collapses, readback, call, engine, java>>

AddInputs ==
  /\ cache.kind = "cross"
  /\ Registered(cache) < MaxBinds * 2 * cache.layer_count_
  /\ cache' = Cross_AddInputs(cache, 0)
  /\ prev' = cache
  /\ lastOp' = [NoOp EXCEPT !.op = "AddInputs"]
  /\ UNCHANGED <<atAdd, nUpdates, collapses, readback, call, engine, java>>

NextBind == Add \/ AddSW \/ AddOutputs \/ AddInputs

\* every variant: construction, then binding to the State
SpecBind == InitBind /\ [][NextBind]_vars

(***************************************************************************)
(* ComposeKeyValueName on its own: one call per behaviour, over templates  *)
(* whose formatted length lies on both sides of the name buffer's size.    *)
(***************************************************************************)
MaxPad == 66

NameIndices == {0, 9, 10, 123}

NameTemplates ==
  {Lit(k, "x") \o tail :
     k \in 0..MaxPad,
     tail \in {<<>>, <<"%d">>, <<"%d", ".", "k">>, <<"%%", "%d">>, <<"%s", "%d">>}}

\* no cache under study
NoCache ==
  /\ cache = Idle /\ prev = Idle /\ atAdd = Idle
  /\ lastOp = NoOp /\ nUpdates = 0 /\ collapses = 0
  /\ engine = Idle /\ java = Idle

InitName ==
  /\ NoCache
  /\ readback = Idle
  /\ call \in {[kind |-> "ComposeKeyValueName", template_string |-> t, index |-> i,
                 done |-> FALSE, fault |-> FALSE, length |-> 0, result |-> Return(<<>>)] :
                 t \in NameTemplates, i \in NameIndices}

Compose ==
  /\ call.kind = "ComposeKeyValueName" /\ ~call.done
  /\ WellFormed(call.template_string)
  /\ call' = [call EXCEPT
                !.done = TRUE,
                !.length = snprintf(KeyValueNameLength, call.template_string, call.index).length,
                !.result = ComposeKeyValueName(call.template_string, call.index)]
  /\ UNCHANGED <<cache, prev, atAdd, lastOp, nUpdates, collapses, readback, engine, java>>

\* the format does not match the argument: the call crashes, or snprintf
\* returns something and the function goes on from there
ComposeUndefined ==
  /\ call.kind = "ComposeKeyValueName" /\ ~call.done
  /\ ~WellFormed(call.template_string)
  /\ \/ call' = [call EXCEPT !.done = TRUE, !.fault = TRUE]
     \/ \E r \in snprintfUndefined(KeyValueNameLength, call.template_string, call.index) :
          call' = [call EXCEPT !.done = TRUE, !.length = r.length, !.result = ComposeFrom(r)]
  /\ UNCHANGED <<cache, prev, atAdd, lastOp, nUpdates, collapses, readback, engine, java>>

NextName == Compose \/ ComposeUndefined

SpecName == InitName /\ [][NextName]_vars

(***************************************************************************)
(* DmlReadbackHeap (src/src/models/dml_readback_heap.cpp): the staging     *)
(* buffer for reads from the device.  size_t has SizeBits bits here, and   *)
(* the initial capacity is scaled with it.  resources maps each live       *)
(* ID3D12Resource to its Width and data to its bytes; queue, submitted and *)
(* held are the execution context's recorded, in-flight and completed      *)
(* commands.                                                               *)
(***************************************************************************)
SizeBits == 6
MaxResources == 4

\* std::numeric_limits<size_t>::max()
SizeMax == 2^SizeBits - 1

c_initialCapacity == 4

\* mutant: when doubling would overflow, the capacity reached is returned
RECURSIVE ComputeNewCapacity_Saturate(_, _)
ComputeNewCapacity_Saturate(existingCapacity, desiredCapacity) ==
  IF ~(existingCapacity < desiredCapacity) THEN Return(existingCapacity)
  ELSE IF existingCapacity >= SizeMax \div 2 THEN Return(existingCapacity)
  ELSE ComputeNewCapacity_Saturate((existingCapacity * 2) % (SizeMax + 1), desiredCapacity)

\* the loop runs on newCapacity, which starts as existingCapacity
RECURSIVE ComputeNewCapacity(_, _)
ComputeNewCapacity(existingCapacity, desiredCapacity) ==
  IF ~(existingCapacity < desiredCapacity) THEN Return(existingCapacity)
  ELSE IF existingCapacity >= SizeMax \div 2 THEN Throw("E_OUTOFMEMORY")
  ELSE ComputeNewCapacity((existingCapacity * 2) % (SizeMax + 1), desiredCapacity)

\* the object as its constructor leaves it
DmlReadbackHeap ==
  [kind |-> "DmlReadbackHeap",
   m_capacity |-> 0,
   m_readbackHeap |-> Null,
   resources |-> <<>>,
   data |-> <<>>,
   mapped |-> FALSE,
   queue |-> <<>>,
   submitted |-> <<>>,
   held |-> <<>>,
   next |-> 1,
   aborted |-> FALSE]

\* m_readbackHeap = CreateReadbackHeap(m_device.Get(), size), creation succeeding
CreateReadbackHeap(h, size) ==
  [h EXCEPT !.resources = [x \in DOMAIN h.resources \cup {h.next} |->
                             IF x = h.next THEN size ELSE h.resources[x]],
            !.data = [x \in DOMAIN h.data \cup {h.next} |->
                        IF x = h.next THEN Garbage(h.next, size) ELSE h.data[x]],
            !.m_readbackHeap = h.next,
            !.next = h.next + 1]

\* m_readbackHeap = nullptr
ResetReadbackHeap(h) ==
  IF h.m_readbackHeap = Null THEN h
  ELSE [h EXCEPT !.resources = [x \in DOMAIN h.resources \ {h.m_readbackHeap} |->
                                  h.resources[x]],
                 !.data = [x \in DOMAIN h.data \ {h.m_readbackHeap} |-> h.data[x]],
                 !.m_readbackHeap = Null]

\* EnsureReadbackHeap(size) in a build without asserts; created tells whether
\* CreateCommittedResource succeeds if it is called.  The result names how
\* the call ended.
EnsureReadbackHeap(h, size, created) ==
  IF h.m_readbackHeap = Null \/ h.m_capacity < size
  THEN LET r == IF h.m_readbackHeap = Null
                THEN ComputeNewCapacity(c_initialCapacity, size)
                ELSE ComputeNewCapacity(h.m_capacity, size)
       IN IF r.threw THEN [heap |-> h, result |-> r.what]
          ELSE LET a == ResetReadbackHeap([h EXCEPT !.m_capacity = r.value])
               IN IF created
                  THEN [heap |-> CreateReadbackHeap(a, a.m_capacity), result |-> "ok"]
                  ELSE [heap |-> a, result |-> "create_failed"]
  ELSE [heap |-> h, result |-> "ok"]

InitReadback ==
  /\ NoCache
  /\ call = Idle
  /\ readback = DmlReadbackHeap

Ensure ==
  /\ readback.kind = "DmlReadbackHeap" /\ ~readback.aborted
  /\ readback.next <= MaxResources
  /\ \E size \in 0..SizeMax, created \in BOOLEAN :
       LET e == EnsureReadbackHeap(readback, size, created)
       IN /\ readback' = e.heap
          /\ lastOp' = [op |-> "EnsureReadbackHeap", size |-> size, result |-> e.result]
  /\ prev' = readback
  /\ UNCHANGED <<cache, atAdd, nUpdates, collapses, call, engine, java>>

\* a build with asserts: assert(m_capacity == 0) on the first-time path fails
EnsureAbort ==
  /\ readback.kind = "DmlReadbackHeap" /\ ~readback.aborted
  /\ readback.m_readbackHeap = Null /\ readback.m_capacity # 0
  /\ \E size \in 0..SizeMax :
       lastOp' = [op |-> "EnsureReadbackHeap", size |-> size, result |-> "abort"]
  /\ readback' = [readback EXCEPT !.aborted = TRUE]
  /\ prev' = readback
  /\ UNCHANGED <<cache, atAdd, nUpdates, collapses, call, engine, java>>

NextReadback == Ensure \/ EnsureAbort

SpecReadback == InitReadback /\ [][NextReadback]_vars

(***************************************************************************)
(* ReadbackFromGpu, both variants.  uint32_t has UInt32Bits bits here.  A  *)
(* source resource and a destination are byte sequences; a region is the   *)
(* arguments of one CopyBufferRegion together with its destination.  The   *)
(* events of a call are kept in the order the call makes them.             *)
(***************************************************************************)
UInt32Bits == 3
MaxRegions == 2
MaxReads == 2

UInt32Max == 2^UInt32Bits - 1

\* uint32_t totalSize = 0; totalSize += size for each of the first n sizes;
\* the same sum is the offset the loops reach before region n
RECURSIVE totalSize(_, _)
totalSize(dstSizes, n) ==
  IF n = 0 THEN 0
  ELSE (totalSize(dstSizes, n - 1) + dstSizes[n]) % (UInt32Max + 1)

\* execution_context_->CopyBufferRegion: records a copy into the staging buffer
CopyBufferRegion(h, dstOffset, src, srcOffset, byteCount) ==
  [h EXCEPT !.queue = Append(h.queue,
      [dst |-> h.m_readbackHeap, dstOffset |-> dstOffset, src |-> src,
       srcOffset |-> srcOffset, byteCount |-> byteCount])]

\* execution_context_->Flush: submits what was recorded
Flush(h) == [h EXCEPT !.submitted = h.submitted \o h.queue, !.queue = <<>>]

\* the device runs one copy; bytes that fall outside the destination are lost
RunCopy(data, cmd, g) ==
  [data EXCEPT ![cmd.dst] =
     [x \in 1..Len(data[cmd.dst]) |->
        IF x - 1 >= cmd.dstOffset /\ x - 1 < cmd.dstOffset + cmd.byteCount
        THEN Rd(cmd.src, cmd.srcOffset + (x - 1 - cmd.dstOffset), g)
        ELSE data[cmd.dst][x]]]

RECURSIVE RunCopies(_, _, _, _)
RunCopies(data, cmds, k, g) ==
  IF k > Len(cmds) THEN data
  ELSE RunCopies(RunCopy(data, cmds[k], g), cmds, k + 1, g)

\* GetCurrentCompletionEvent().WaitForSignal(): returns once the device has
\* run everything submitted
WaitForSignal(h, g) ==
  [h EXCEPT !.data = RunCopies(h.data, h.submitted, 1, g),
            !.held = h.held \o h.submitted,
            !.submitted = <<>>]

\* execution_context_->ReleaseCompletedReferences
ReleaseCompletedReferences(h) == [h EXCEPT !.held = <<>>]

\* m_readbackHeap->Map(0, nullptr, &readbackHeapData), succeeding
Map(h) == [h EXCEPT !.mapped = TRUE]

\* m_readbackHeap->Unmap(0, nullptr)
Unmap(h) == [h EXCEPT !.mapped = FALSE]

\* a copy that leaves the staging buffer, on the device or on the host
OutOfStaging(h, regions) ==
  \E k \in 1..Len(regions) :
    regions[k].byteCount > 0 /\
    regions[k].dstOffset + regions[k].byteCount > h.resources[h.m_readbackHeap]

RECURSIVE CopyRegions(_, _, _)
CopyRegions(h, regions, k) ==
  IF k > Len(regions) THEN h
  ELSE CopyRegions(CopyBufferRegion(h, regions[k].dstOffset, regions[k].src,
                                    regions[k].srcOffset, regions[k].byteCount),
                   regions, k + 1)

\* memcpy(dst[i], readbackHeapData + offset, size) for every region
HostCopies(dst, staging, regions, g) ==
  [i \in 1..Len(dst) |->
     Put(dst[i], 0, Span(staging, regions[i].dstOffset, regions[i].byteCount, g))]

Repeat(n, e) == [k \in 1..n |-> e]

\* mutant: the buffer is mapped and read before the device is waited for
ReadbackBody_MapFirst(h, dst, regions, size, o) ==
  LET e == EnsureReadbackHeap(h, size, o.created)
      n == Len(regions)
  IN IF e.result # "ok"
     THEN [heap |-> e.heap, dst |-> dst, events |-> <<"EnsureReadbackHeap">>,
           result |-> e.result]
     ELSE LET copied == CopyRegions(e.heap, regions, 1)
              out == HostCopies(dst, copied.data[copied.m_readbackHeap], regions, o.g)
              waited == ReleaseCompletedReferences(WaitForSignal(Flush(copied), o.g))
          IN [heap |-> Unmap(Map(waited)), dst |-> out,
              events |-> <<"EnsureReadbackHeap">> \o Repeat(n, "CopyBufferRegion")
                         \o <<"Map">> \o Repeat(n, "memcpy")
                         \o <<"Flush", "WaitForSignal", "ReleaseCompletedReferences", "Unmap">>,
              result |-> "ok"]

\* what the two variants do once the regions and the size to ensure are
\* known; o holds what the environment decides: whether buffer creation and
\* Map succeed, and what a copy outside the staging buffer leads to
ReadbackBody(h, dst, regions, size, o) ==
  LET e == EnsureReadbackHeap(h, size, o.created)
      n == Len(regions)
  IN IF e.result # "ok"
     THEN [heap |-> e.heap, dst |-> dst, events |-> <<"EnsureReadbackHeap">>,
           result |-> e.result]
     ELSE LET copied == CopyRegions(e.heap, regions, 1)
              waited == ReleaseCompletedReferences(WaitForSignal(Flush(copied), o.g))
              before == <<"EnsureReadbackHeap">> \o Repeat(n, "CopyBufferRegion")
                        \o <<"Flush", "WaitForSignal", "ReleaseCompletedReferences">>
          IN IF OutOfStaging(e.heap, regions) /\ o.ub = "crash"
             THEN [heap |-> [waited EXCEPT !.aborted = TRUE], dst |-> dst,
                   events |-> before, result |-> "crash"]
             ELSE IF ~o.map
             THEN [heap |-> waited, dst |-> dst, events |-> before, result |-> "map_failed"]
             ELSE [heap |-> Unmap(Map(waited)),
                   dst |-> HostCopies(dst, waited.data[waited.m_readbackHeap], regions, o.g),
                   events |-> before \o <<"Map">> \o Repeat(n, "memcpy") \o <<"Unmap">>,
                   result |-> "ok"]

\* ReadbackFromGpu(dst, src, srcOffset, srcState): one region at offset 0
ReadbackFromGpu(h, dst, src, srcOffset, o) ==
  ReadbackBody(h, <<dst>>,
               <<[dstOffset |-> 0, src |-> src, srcOffset |-> srcOffset,
                  byteCount |-> Len(dst)]>>,
               Len(dst), o)

\* the arguments of the i-th CopyBufferRegion and memcpy of the multi-region
\* variant
Regions(dstSizes, src) ==
  [i \in 1..Len(dstSizes) |->
     [dstOffset |-> totalSize(dstSizes, i - 1), src |-> src[i], srcOffset |-> 0,
      byteCount |-> dstSizes[i]]]

\* ReadbackFromGpu(dst, dstSizes, src, srcState)
ReadbackFromGpuRegions(h, dst, dstSizes, src, o) ==
  IF Len(dst) = 0
  THEN [heap |-> h, dst |-> dst, events |-> <<>>, result |-> "ok"]
  ELSE ReadbackBody(h, dst, Regions(dstSizes, src),
                    totalSize(dstSizes, Len(dstSizes)), o)

\* what the environment can decide during a call
Outcomes == [created : BOOLEAN, map : BOOLEAN, ub : {"crash", "garbage"}, g : {40}]

\* the bytes of the i-th source resource: its region and one byte more
SourceBytes(i, n) == Pattern(0, i, n + 1)

\* a destination of n bytes inside a larger host buffer
HostBuffer(n) == Fill(n + 1, 255)

InitRead ==
  /\ NoCache
  /\ call = Idle
  /\ readback = DmlReadbackHeap

ReadbackSingle ==
  /\ readback.kind = "DmlReadbackHeap" /\ ~readback.aborted
  /\ nUpdates < MaxReads
  /\ \E size \in 1..UInt32Max, srcOffset \in {0, 1}, o \in Outcomes :
       LET src == Pattern(0, 0, size + srcOffset)
           r == ReadbackFromGpu(readback, Fill(size, 255), src, srcOffset, o)
       IN /\ readback' = r.heap
          /\ call' = [kind |-> "ReadbackFromGpu", variant |-> "single",
                      dstSizes |-> <<size>>,
                      src |-> <<[x \in 1..size |-> src[x + srcOffset]]>>,
                      dst |-> r.dst, events |-> r.events, result |-> r.result]
  /\ lastOp' = [op |-> "ReadbackFromGpu", beam |-> <<>>, len |-> 0]
  /\ prev' = readback
  /\ nUpdates' = nUpdates + 1
  /\ UNCHANGED <<cache, atAdd, collapses, engine, java>>

ReadbackMulti ==
  /\ readback.kind = "DmlReadbackHeap" /\ ~readback.aborted
  /\ nUpdates < MaxReads
  /\ \E n \in 0..MaxRegions, o \in Outcomes :
       \E dstSizes \in [1..n -> 0..UInt32Max] :
         LET src == [i \in 1..n |-> SourceBytes(i, dstSizes[i])]
             dst == [i \in 1..n |-> HostBuffer(dstSizes[i])]
             r == ReadbackFromGpuRegions(readback, dst, dstSizes, src, o)
         IN /\ readback' = r.heap
            /\ call' = [kind |-> "ReadbackFromGpu", variant |-> "multi",
                        dstSizes |-> dstSizes, src |-> src,
                        dst |-> r.dst, events |-> r.events, result |-> r.result]
  /\ lastOp' = [op |-> "ReadbackFromGpu", beam |-> <<>>, len |-> 0]
  /\ prev' = readback
  /\ nUpdates' = nUpdates + 1
  /\ UNCHANGED <<cache, atAdd, collapses, engine, java>>

\* a build with asserts, after a failed buffer creation: the next call stops
\* at assert(m_capacity == 0)
ReadbackAbort ==
  /\ readback.kind = "DmlReadbackHeap" /\ ~readback.aborted
  /\ nUpdates < MaxReads
  /\ readback.m_readbackHeap = Null /\ readback.m_capacity # 0
  /\ readback' = [readback EXCEPT !.aborted = TRUE]
  /\ lastOp' = [op |-> "abort", beam |-> <<>>, len |-> 0]
  /\ prev' = readback
  /\ nUpdates' = nUpdates + 1
  /\ UNCHANGED <<cache, atAdd, collapses, call, engine, java>>

NextRead == ReadbackSingle \/ ReadbackMulti \/ ReadbackAbort

SpecRead == InitRead /\ [][NextRead]_vars

(***************************************************************************)
(* OgaEngine (src/src/engine.cpp): a queue of prompts waiting to be        *)
(* scheduled and the loop of Generate that drains it batch by batch.  A    *)
(* prompt is a const char*, here one of a few values; the same value can   *)
(* be queued more than once.  pushed and popped are the history of the     *)
(* queue: every value pushed and every value popped, in order.  The frame  *)
(* of a running Generate is kept in call.                                  *)
(***************************************************************************)
MaxPushed == 5
MaxArgs == 2

\* declared in engine.h
kMaxBatchSize == 2

Prompts == {"a", "b"}

\* OgaEngine::OgaEngine: model and tokenizer created, nothing queued
OgaEngine ==
  [kind |-> "OgaEngine",
   unscheduled_prompts_ |-> <<>>,
   request_id_ |-> 0,
   pushed |-> <<>>,
   popped |-> <<>>]

\* unscheduled_prompts_.push(prompt)
push(e, prompt) ==
  [e EXCEPT !.unscheduled_prompts_ = Append(@, prompt),
            !.pushed = Append(@, prompt)]

\* unscheduled_prompts_.pop()
pop(e) ==
  [e EXCEPT !.unscheduled_prompts_ = Tail(@),
            !.popped = Append(@, Head(e.unscheduled_prompts_))]

\* mutant: the loop takes the newest prompt of the queue
RECURSIVE ScheduleLoop_Newest(_, _, _)
ScheduleLoop_Newest(e, i, scheduled_prompts) ==
  IF i >= kMaxBatchSize \/ e.unscheduled_prompts_ = <<>>
  THEN [engine |-> e, result |-> scheduled_prompts]
  ELSE LET q == e.unscheduled_prompts_
           back == q[Len(q)]
       IN ScheduleLoop_Newest(
            [e EXCEPT !.unscheduled_prompts_ = SubSeq(q, 1, Len(q) - 1),
                      !.popped = Append(@, back)],
            i + 1, Append(scheduled_prompts, back))

\* for (int i = 0; i < kMaxBatchSize; i++) { if empty break; push_back(front); pop }
RECURSIVE ScheduleLoop(_, _, _)
ScheduleLoop(e, i, scheduled_prompts) ==
  IF i >= kMaxBatchSize \/ e.unscheduled_prompts_ = <<>>
  THEN [engine |-> e, result |-> scheduled_prompts]
  ELSE ScheduleLoop(pop(e), i + 1,
                    Append(scheduled_prompts, Head(e.unscheduled_prompts_)))

\* OgaEngine::Schedule
Schedule(e) == ScheduleLoop(e, 0, <<>>)

\* OgaEngine::AddRequest
AddRequest(e, prompt) ==
  [engine |-> [push(e, prompt) EXCEPT !.request_id_ = e.request_id_ + 1],
   result |-> e.request_id_]

\* for (const char* prompt : prompts) unscheduled_prompts_.push(prompt)
RECURSIVE PushAll(_, _, _)
PushAll(e, prompts, k) ==
  IF k > Len(prompts) THEN e ELSE PushAll(push(e, prompts[k]), prompts, k + 1)

\* std::string(): the value-initialized element of outputs
EmptyString == <<>>

\* the string one prompt's generated sequence decodes to
Generated(prompt) == <<"generated", prompt>>

\* EncodeBatch, model_->Generate and DecodeBatch over one batch: one string
\* per scheduled prompt
DecodeBatch(scheduled_prompts) ==
  [k \in 1..Len(scheduled_prompts) |-> Generated(scheduled_prompts[k])]

\* Generate up to the loop: the prompts are queued and outputs is built
GenerateEntry(e, prompts) ==
  LET pushedAll == PushAll(e, prompts, 1)
  IN [engine |-> pushedAll,
      frame |-> [kind |-> "Generate", pc |-> "loop", prompts |-> prompts,
                 outputs |-> [k \in 1..Len(prompts) |-> EmptyString],
                 queued |-> Len(pushedAll.unscheduled_prompts_),
                 batches |-> 0]]

\* mutant: the loop is left while one prompt is still queued
GenerateLoopEnds_Early(e) == Len(e.unscheduled_prompts_) <= 1

\* while (!unscheduled_prompts_.empty())
GenerateLoopEnds(e) == e.unscheduled_prompts_ = <<>>

\* one iteration of the loop of Generate
GenerateIteration(e, frame) ==
  LET s == Schedule(e)
  IN [engine |-> s.engine, scheduled_prompts |-> s.result,
      frame |-> [frame EXCEPT !.outputs = @ \o DecodeBatch(s.result),
                              !.batches = @ + 1]]

InGenerate == call.kind = "Generate" /\ call.pc = "loop"

InitEngine ==
  /\ cache = Idle /\ prev = Idle /\ atAdd = Idle
  /\ lastOp = NoOp /\ nUpdates = 0 /\ collapses = 0
  /\ readback = Idle /\ java = Idle
  /\ call = Idle
  /\ engine = OgaEngine

EngineAddRequest ==
  /\ engine.kind = "OgaEngine" /\ ~InGenerate
  /\ Len(engine.pushed) < MaxPushed
  /\ \E prompt \in Prompts :
       LET r == AddRequest(engine, prompt)
       IN /\ engine' = r.engine
          /\ lastOp' = [op |-> "AddRequest", prompt |-> prompt, result |-> r.result]
  /\ prev' = engine
  /\ call' = Idle
  /\ UNCHANGED <<cache, atAdd, nUpdates, collapses, readback, java>>

EngineSchedule ==
  /\ engine.kind = "OgaEngine" /\ ~InGenerate
  /\ LET s == Schedule(engine)
     IN /\ engine' = s.engine
        /\ lastOp' = [op |-> "Schedule", result |-> s.result]
  /\ prev' = engine
  /\ call' = Idle
  /\ UNCHANGED <<cache, atAdd, nUpdates, collapses, readback, java>>

GenerateBegin ==
  /\ engine.kind = "OgaEngine" /\ ~InGenerate
  /\ \E n \in 0..MaxArgs :
       \E prompts \in [1..n -> Prompts] :
         /\ Len(engine.pushed) + n <= MaxPushed
         /\ LET g == GenerateEntry(engine, prompts)
            IN /\ engine' = g.engine
               /\ call' = g.frame
  /\ lastOp' = [op |-> "Generate"]
  /\ prev' = engine
  /\ UNCHANGED <<cache, atAdd, nUpdates, collapses, readback, java>>

GenerateBatch ==
  /\ InGenerate /\ ~GenerateLoopEnds(engine)
  /\ LET it == GenerateIteration(engine, call)
     IN /\ engine' = it.engine
        /\ call' = it.frame
        /\ lastOp' = [op |-> "Schedule", result |-> it.scheduled_prompts]
  /\ prev' = engine
  /\ UNCHANGED <<cache, atAdd, nUpdates, collapses, readback, java>>

\* EncodeBatch, Create, model_->Generate or DecodeBatch throws: Generate is
\* left with the batch already taken from the queue
GenerateThrow ==
  /\ InGenerate /\ ~GenerateLoopEnds(engine)
  /\ LET s == Schedule(engine)
     IN /\ engine' = s.engine
        /\ lastOp' = [op |-> "Schedule", result |-> s.result]
  /\ call' = [call EXCEPT !.pc = "threw"]
  /\ prev' = engine
  /\ UNCHANGED <<cache, atAdd, nUpdates, collapses, readback, java>>

GenerateReturn ==
  /\ InGenerate /\ GenerateLoopEnds(engine)
  /\ call' = [call EXCEPT !.pc = "returned"]
  /\ lastOp' = [op |-> "return"]
  /\ prev' = engine
  /\ UNCHANGED <<cache, atAdd, nUpdates, collapses, readback, java, engine>>

NextEngine ==
  \/ EngineAddRequest \/ EngineSchedule
  \/ GenerateBegin \/ GenerateBatch \/ GenerateThrow \/ GenerateReturn

SpecEngine == InitEngine /\ [][NextEngine]_vars

\* Generate runs on the caller's thread: once entered, its loop keeps
\* taking steps, and every call it makes returns or throws
SpecEngineLive ==
  /\ SpecEngine
  /\ WF_vars(GenerateBatch \/ GenerateThrow)
  /\ WF_vars(GenerateReturn)

(***************************************************************************)
(* The Java class Model (package ai.onnxruntime.genai; its text is in      *)
(* src/src/java/src/test/java/ai/onnxruntime/genai/                        *)
(* MultiModalProcessorTest.java).  nativeHandle is the handle of the       *)
(* native model, 0 once freed.  params holds the nativeHandle of every     *)
(* GeneratorParams made from the model, and native is the list of calls    *)
(* that reached native code.  Calls are made one after another.            *)
(***************************************************************************)
MaxJavaCalls == 5
MaxParams == 2

\* handles the native library can return for a model: never 0
ModelHandles == {11, 12}

\* the handle the native library returns for the k-th GeneratorParams
ParamsHandle(k) == 20 + k

\* a call that reached native code
Native(m, fn, handle) == [m EXCEPT !.native = Append(@, [fn |-> fn, handle |-> handle])]

\* Model(String modelPath), createModel succeeding
Model(handle) ==
  Native([kind |-> "Model", nativeHandle |-> handle, params |-> <<>>, native |-> <<>>],
         "createModel", handle)

\* new Tokenizer(model): the native tokenizer is made from the model handle
Tokenizer(m, ok) ==
  [model |-> Native(m, "createTokenizer", m.nativeHandle),
   result |-> IF ok THEN "Tokenizer" ELSE "GenAIException"]

\* new GeneratorParams(model): the native object is made from the model handle
GeneratorParams(m, ok) ==
  LET n == Native(m, "createGeneratorParams", m.nativeHandle)
  IN [model |-> IF ok THEN [n EXCEPT !.params = Append(@, ParamsHandle(Len(m.params) + 1))]
                ELSE n,
      result |-> IF ok THEN "GeneratorParams" ELSE "GenAIException"]

\* GeneratorParams.close(): frees the native object once
GeneratorParams_close(m, k) ==
  IF m.params[k] # 0
  THEN [Native(m, "destroyGeneratorParams", m.params[k]) EXCEPT !.params[k] = 0]
  ELSE m

\* Model.createTokenizer
createTokenizer(m, ok) ==
  IF m.nativeHandle = 0
  THEN [model |-> m, result |-> "IllegalStateException"]
  ELSE Tokenizer(m, ok)

\* Model.createGeneratorParams
createGeneratorParams(m, ok) ==
  IF m.nativeHandle = 0
  THEN [model |-> m, result |-> "IllegalStateException"]
  ELSE GeneratorParams(m, ok)

\* mutant: the model's own handle is checked first
generate_ModelFirst(m, k, ok) ==
  IF m.nativeHandle = 0
  THEN [model |-> m, result |-> "IllegalStateException"]
  ELSE IF m.params[k] = 0
  THEN [model |-> m, result |-> "IllegalArgumentException"]
  ELSE [model |-> Native(m, "generate", m.nativeHandle),
        result |-> IF ok THEN "Sequences" ELSE "GenAIException"]

\* Model.generate(generatorParams), generatorParams being the k-th made
generate(m, k, ok) ==
  IF m.params[k] = 0
  THEN [model |-> m, result |-> "IllegalArgumentException"]
  ELSE IF m.nativeHandle = 0
  THEN [model |-> m, result |-> "IllegalStateException"]
  ELSE [model |-> Native(m, "generate", m.nativeHandle),
        result |-> IF ok THEN "Sequences" ELSE "GenAIException"]

\* Model.close
close(m) ==
  IF m.nativeHandle # 0
  THEN [Native(m, "destroyModel", m.nativeHandle) EXCEPT !.nativeHandle = 0]
  ELSE m

InitJava ==
  /\ cache = Idle /\ prev = Idle /\ atAdd = Idle
  /\ lastOp = NoOp /\ nUpdates = 0 /\ collapses = 0
  /\ readback = Idle /\ call = Idle /\ engine = Idle
  /\ \E handle \in ModelHandles : java = Model(handle)

\* what every call of the Java model leaves alone, and the call count
JavaCall ==
  /\ java.kind = "Model" /\ nUpdates < MaxJavaCalls
  /\ nUpdates' = nUpdates + 1
  /\ prev' = java
  /\ UNCHANGED <<cache, atAdd, collapses, readback, call, engine>>

JavaCreateTokenizer ==
  /\ JavaCall
  /\ \E ok \in BOOLEAN :
       LET r == createTokenizer(java, ok)
       IN /\ java' = r.model
          /\ lastOp' = [op |-> "createTokenizer", result |-> r.result]

JavaCreateGeneratorParams ==
  /\ JavaCall
  /\ Len(java.params) < MaxParams
  /\ \E ok \in BOOLEAN :
       LET r == createGeneratorParams(java, ok)
       IN /\ java' = r.model
          /\ lastOp' = [op |-> "createGeneratorParams", result |-> r.result]

JavaGenerate ==
  /\ JavaCall
  /\ \E k \in 1..Len(java.params), ok \in BOOLEAN :
       LET r == generate(java, k, ok)
       IN /\ java' = r.model
          /\ lastOp' = [op |-> "generate", params |-> k, result |-> r.result]

JavaClose ==
  /\ JavaCall
  /\ java' = close(java)
  /\ lastOp' = [op |-> "close", result |-> "void"]

JavaCloseParams ==
  /\ JavaCall
  /\ \E k \in 1..Len(java.params) :
       /\ java' = GeneratorParams_close(java, k)
       /\ lastOp' = [op |-> "GeneratorParams.close", params |-> k, result |-> "void"]

NextJava ==
  \/ JavaCreateTokenizer \/ JavaCreateGeneratorParams \/ JavaGenerate
  \/ JavaClose \/ JavaCloseParams

SpecJava == InitJava /\ [][NextJava]_vars

(***************************************************************************)
(* Properties.                                                             *)
(***************************************************************************)
\* the tensor registered in input / output slot i of the cache's block
InSlot(c, i) == c.inputs_[c.input_index_ + i + 1]
OutSlot(c, i) == c.outputs_[c.output_index_ + i + 1]

\* element (b, h, s, d) of a row-major tensor of shape [B, H, S, D]
At4(t, b, h, s, d) ==
  t.data[((b * t.shape[2] + h) * t.shape[3] + s) * t.shape[4] + d + 1]

\* element (kv, b, h, s, d) of a row-major tensor of shape [2, B, H, S, D]
At5(t, kv, b, h, s, d) ==
  t.data[(((kv * t.shape[2] + b) * t.shape[3] + h) * t.shape[4] + s) * t.shape[5] + d + 1]

UpdateOf(c, beam, len, g) ==
  IF c.kind = "split" THEN KV_Update(c, beam, len, g) ELSE Combined_Update(c, beam, len, g)

\* C1: in shared-buffer mode, after Add, no Update (whatever its beam_indices
\* and current_length) changes the tensor handle of any input or output slot,
\* and no tensor is allocated or released.
C1_SharedUpdateKeepsHandles ==
  (cache.added /\ cache.past_present_share_buffer_) =>
    /\ cache.inputs_ = atAdd.inputs_
    /\ cache.outputs_ = atAdd.outputs_
    /\ DOMAIN cache.heap = DOMAIN atAdd.heap
    /\ cache.next = atAdd.next

C1_Witness ==
  /\ cache.added /\ cache.past_present_share_buffer_
  /\ nUpdates >= 2
  /\ lastOp.op = "Update" /\ lastOp.beam # <<>>
  /\ lastOp.len # cache.cfg.max_length

\* C2: in shared-buffer mode, in every state after Add, input slot
\* input_index_ + i and output slot output_index_ + i both hold presents_[i],
\* a live tensor whose sequence-length dimension is max_length.
C2_SharedSlotsAlias ==
  (cache.added /\ cache.past_present_share_buffer_) =>
    \A i \in 0..(2 * cache.layer_count_ - 1) :
      /\ InSlot(cache, i) = cache.presents_[i + 1]
      /\ OutSlot(cache, i) = cache.presents_[i + 1]
      /\ cache.presents_[i + 1] \in DOMAIN cache.heap
      /\ cache.heap[cache.presents_[i + 1]].shape[3] = cache.cfg.max_length

C2_Witness ==
  /\ cache.added /\ cache.past_present_share_buffer_
  /\ nUpdates >= 1
  /\ lastOp.op = "Run"
  /\ cache.cfg.sequence_length # cache.cfg.max_length

\* C3: after an Update with non-empty beam_indices (one in-range index per
\* row), in every layer the new past's row j is the pre-call present's row
\* beam_indices[j], for the key part and the value part independently.
C3_BeamReorder ==
  (lastOp.op = "Update" /\ lastOp.beam # <<>> /\ ~cache.past_present_share_buffer_) =>
    \A i \in 0..(SlotCount(cache) - 1) :
      LET past == cache.heap[cache.pasts_[i + 1]]
          present == prev.heap[prev.presents_[i + 1]]
          n == Len(past.shape)
      IN /\ past.shape = present.shape
         /\ \A b \in 0..(BatchBeamSize(cache.cfg) - 1), h \in 0..(past.shape[n - 2] - 1),
               s \in 0..(past.shape[n - 1] - 1), d \in 0..(past.shape[n] - 1) :
              IF cache.kind = "split"
              THEN At4(past, b, h, s, d) = At4(present, lastOp.beam[b + 1], h, s, d)
              ELSE \A kv \in 0..1 :
                     At5(past, kv, b, h, s, d) = At5(present, kv, lastOp.beam[b + 1], h, s, d)

\* a swap of two rows that differ, in a Combined cache with more than one
\* position per row
C3_Witness ==
  /\ lastOp.op = "Update" /\ lastOp.beam = <<1, 0>>
  /\ cache.kind = "combined"
  /\ LET present == prev.heap[prev.presents_[1]]
     IN /\ present.shape[4] = 2
        /\ At5(present, 0, 0, 0, 0, 0) # At5(present, 0, 1, 0, 0, 0)
        /\ At5(present, 1, 0, 0, 0, 0) # At5(present, 0, 0, 0, 0, 0)

\* C4: Update with the identity beam-index list and Update with the empty
\* list, from the same state, give pasts of the same shape and content in
\* every layer and presents of the same shape.
C4_IdentityEqualsEmpty ==
  (lastOp.op = "Update" /\ lastOp.beam = Identity(BatchBeamSize(cache.cfg))
     /\ ~cache.past_present_share_buffer_) =>
    \A g \in Seeds :
      LET other == UpdateOf(prev, <<>>, lastOp.len, g)
      IN \A i \in 0..(SlotCount(cache) - 1) :
           /\ cache.heap[cache.pasts_[i + 1]] = other.heap[other.pasts_[i + 1]]
           /\ cache.heap[InSlot(cache, i)] = other.heap[InSlot(other, i)]
           /\ cache.heap[cache.presents_[i + 1]].shape = other.heap[other.presents_[i + 1]].shape
           /\ cache.heap[OutSlot(cache, i)].shape = other.heap[OutSlot(other, i)].shape

C4_Witness ==
  /\ lastOp.op = "Update" /\ lastOp.beam = <<0, 1>>
  /\ nUpdates = 2
  /\ cache.kind = "split"
  /\ cache.heap[cache.pasts_[1]].shape[3] = 2
  /\ cache.heap[cache.pasts_[1]].data # cache.heap[cache.pasts_[2]].data

\* C5: after Update with empty beam_indices and length n, every input slot
\* holds the very tensor that was in the matching output slot before the call
\* (same handle, untouched), and every output slot holds a tensor allocated by
\* the call whose sequence-length dimension is n.
C5_EmptyBeamMoves ==
  (lastOp.op = "Update" /\ lastOp.beam = <<>> /\ ~cache.past_present_share_buffer_) =>
    \A i \in 0..(SlotCount(cache) - 1) :
      LET n == Len(cache.shape_)
      IN /\ InSlot(cache, i) = OutSlot(prev, i)
         /\ InSlot(cache, i) \in DOMAIN cache.heap
         /\ cache.heap[InSlot(cache, i)] = prev.heap[OutSlot(prev, i)]
         /\ OutSlot(cache, i) \in DOMAIN cache.heap \ DOMAIN prev.heap
         /\ OutSlot(cache, i) >= prev.next
         /\ cache.heap[OutSlot(cache, i)].shape[n - 1] = lastOp.len

C5_Witness ==
  /\ lastOp.op = "Update" /\ lastOp.beam = <<>>
  /\ nUpdates = 2
  /\ cache.kind = "combined"
  /\ cache.heap[InSlot(cache, 0)].shape[4] # lastOp.len

\* the in and out tensors of a layer, before (prev) and after (cache) the step
KeyIn(c, l) == c.heap[c.key_caches_in_[l]]
KeyOut(c, l) == c.heap[c.key_caches_out_[l]]
ValueIn(c, l) == c.heap[c.value_caches_in_[l]]
ValueOut(c, l) == c.heap[c.value_caches_out_[l]]

\* row (h, d) of a key tensor [H, 1, D, N] as a sequence of N elements
KeyRow(t, h, d) == [x \in 1..t.shape[4] |-> At4(t, h, 0, d, x - 1)]

\* head h of a value tensor [H, 1, N, D] as a sequence of N positions,
\* each a sequence of D elements
ValueHead(t, h) ==
  [p \in 1..t.shape[3] |-> [d \in 1..t.shape[4] |-> At4(t, h, 0, p - 1, d - 1)]]

DropFirst(q, n) == [x \in 1..(Len(q) - n) |-> q[x + n]]

Collapsed == lastOp.op = "Update" /\ cache.kind = "sliding" /\ prev.window_size_ > 1
Slid == lastOp.op = "Update" /\ cache.kind = "sliding" /\ prev.window_size_ = 1

SWLayers == 1..cache.layer_count_
SWHeads == 0..(cache.cfg.num_key_value_heads - 1)
SWDims == 0..(cache.cfg.head_size - 1)

\* C6: window_size_ is the configured value until the first Update and 1
\* after every Update; the collapse branch is taken at most once.
C6_WindowCollapsesOnce ==
  cache.kind = "sliding" =>
    /\ nUpdates = 0 => cache.window_size_ = cache.cfg.window_size
    /\ nUpdates >= 1 => cache.window_size_ = 1
    /\ collapses <= 1

C6_Witness ==
  /\ cache.kind = "sliding"
  /\ cache.cfg.window_size > 1
  /\ nUpdates >= 2
  /\ collapses = 1

\* C7: the collapsing Update (window_size W > 1, context_length C) takes every
\* layer's key-in from [heads, 1, head_size, C - W] to [heads, 1, head_size,
\* C - 1], sets window_size_ to 1, and the last W elements of every row of the
\* new key-in are that row of the old key-out, in order.
C7_CollapseKeyTail ==
  Collapsed =>
    LET W == prev.window_size_
        C == cache.cfg.context_length
        H == cache.cfg.num_key_value_heads
        D == cache.cfg.head_size
    IN /\ cache.window_size_ = 1
       /\ prev.key_cache_shape_in_ = <<H, 1, D, C - W>>
       /\ cache.key_cache_shape_in_ = <<H, 1, D, C - 1>>
       /\ \A l \in SWLayers :
            /\ KeyIn(prev, l).shape = <<H, 1, D, C - W>>
            /\ KeyIn(cache, l).shape = <<H, 1, D, C - 1>>
            /\ InSlot(cache, 2 * (l - 1)) = cache.key_caches_in_[l]
            /\ \A h \in SWHeads, d \in SWDims, t \in 0..(W - 1) :
                 At4(KeyIn(cache, l), h, 0, d, C - 1 - W + t) = At4(KeyOut(prev, l), h, 0, d, t)

C7_Witness ==
  /\ Collapsed
  /\ prev.window_size_ >= 2
  /\ cache.cfg.num_key_value_heads = 2 /\ cache.cfg.head_size = 2
  /\ KeyRow(KeyOut(prev, 1), 0, 0) # KeyRow(KeyOut(prev, 1), 1, 1)
  /\ KeyOut(prev, 1).data[1] # KeyOut(prev, 1).data[2]

C9_SlideKeepsShapesAndHandles ==
  Slid =>
    /\ cache.window_size_ = 1
    /\ cache.key_cache_shape_in_ = prev.key_cache_shape_in_
    /\ cache.key_cache_shape_out_ = prev.key_cache_shape_out_
    /\ cache.value_cache_shape_in_ = prev.value_cache_shape_in_
    /\ cache.value_cache_shape_out_ = prev.value_cache_shape_out_
    /\ cache.key_caches_in_ = prev.key_caches_in_
    /\ cache.key_caches_out_ = prev.key_caches_out_
    /\ cache.value_caches_in_ = prev.value_caches_in_
    /\ cache.value_caches_out_ = prev.value_caches_out_
    /\ cache.inputs_ = prev.inputs_
    /\ cache.outputs_ = prev.outputs_
    /\ cache.next = prev.next
    /\ DOMAIN cache.heap = DOMAIN prev.heap
    /\ \A x \in DOMAIN cache.heap :
         /\ cache.heap[x].shape = prev.heap[x].shape
         /\ Len(cache.heap[x].data) = Len(prev.heap[x].data)
         /\ cache.heap[x].data # prev.heap[x].data =>
              \E l \in SWLayers : x \in {cache.key_caches_in_[l], cache.value_caches_in_[l]}

C9_Witness ==
  /\ Slid
  /\ nUpdates >= 2
  /\ prev.cfg.window_size > 1
  /\ KeyIn(cache, 1).data # KeyIn(prev, 1).data
  /\ ValueIn(cache, 1).data # ValueIn(prev, 1).data

\* C10: Slide (window_size 1, in-length N = context_length - 1): in every key
\* row new[k] = old[k + 1] for k < N - 1 and new[N - 1] = the row's key-out
\* element; in every value head new position p = old position p + 1 for
\* p < N - 1 and new position N - 1 = the head's value-out vector; the
\* out-tensors are not modified.
C10_SlideContent ==
  Slid =>
    LET N == cache.cfg.context_length - 1
    IN \A l \in SWLayers, h \in SWHeads, d \in SWDims :
         /\ \A k \in 0..(N - 2) :
              /\ At4(KeyIn(cache, l), h, 0, d, k) = At4(KeyIn(prev, l), h, 0, d, k + 1)
              /\ At4(ValueIn(cache, l), h, 0, k, d) = At4(ValueIn(prev, l), h, 0, k + 1, d)
         /\ At4(KeyIn(cache, l), h, 0, d, N - 1) = At4(KeyOut(prev, l), h, 0, d, 0)
         /\ At4(ValueIn(cache, l), h, 0, N - 1, d) = At4(ValueOut(prev, l), h, 0, 0, d)
         /\ KeyOut(cache, l) = KeyOut(prev, l)
         /\ ValueOut(cache, l) = ValueOut(prev, l)

\* a slide of a history that already holds a step's output, two heads of two
\* elements, at least two positions
C10_Witness ==
  /\ Slid
  /\ nUpdates >= 2
  /\ cache.cfg.num_key_value_heads = 2 /\ cache.cfg.head_size = 2
  /\ cache.cfg.context_length >= 3
  /\ LET N == cache.cfg.context_length - 1
     IN /\ At4(ValueIn(prev, 1), 1, 0, N - 1, 0) # At4(ValueIn(prev, 1), 1, 0, N - 1, 1)
        /\ At4(ValueIn(prev, 1), 1, 0, N - 1, 0) # At4(ValueIn(prev, 1), 1, 0, N - 2, 0)
        /\ At4(KeyIn(prev, 1), 1, 0, 1, N - 1) # At4(KeyIn(prev, 1), 1, 0, 1, N - 2)

\* the name templates a variant composes its input and output names from
InputTemplates(c) ==
  IF c.kind = "combined" THEN <<c.cfg.inputs.past_names>>
  ELSE IF c.kind = "cross"
  THEN <<c.cfg.inputs.cross_past_key_names, c.cfg.inputs.cross_past_value_names>>
  ELSE <<c.cfg.inputs.past_key_names, c.cfg.inputs.past_value_names>>

OutputTemplates(c) ==
  IF c.kind = "combined" THEN <<c.cfg.outputs.present_names>>
  ELSE IF c.kind = "cross"
  THEN <<c.cfg.outputs.cross_present_key_names, c.cfg.outputs.cross_present_value_names>>
  ELSE <<c.cfg.outputs.present_key_names, c.cfg.outputs.present_value_names>>

\* the last n entries of a list of slots or names
LastN(q, n) == SubSeq(q, Len(q) - n + 1, Len(q))

NoDuplicates(q) == \A a, b \in 1..Len(q) : a # b => q[a] # q[b]

\* entry k (0-based) of the names a variant composes: template k mod m of layer k div m
NamesFrom(templates, n) ==
  [k \in 1..n |-> Formatted(templates[((k - 1) % Len(templates)) + 1],
                            (k - 1) \div Len(templates))]

Literal(tok) == tok \notin {"%d", "%%", "%s"}

\* templates that give every (template, layer) pair a name of its own: each
\* holds the layer index, and two of them begin or end with different
\* literal characters
NameSafe(templates) ==
  /\ \A a \in 1..Len(templates) :
       /\ WellFormed(templates[a])
       /\ \E k \in 1..Len(templates[a]) : templates[a][k] = "%d"
  /\ \A a, b \in 1..Len(templates) :
       a # b =>
         LET t == templates[a]
             u == templates[b]
         IN \/ Literal(t[1]) /\ Literal(u[1]) /\ t[1] # u[1]
            \/ Literal(t[Len(t)]) /\ Literal(u[Len(u)]) /\ t[Len(t)] # u[Len(u)]

\* the cache was bound by the last step: Add, or AddInputs / AddOutputs
JustBound ==
  /\ cache.kind \in {"split", "combined", "sliding", "cross"}
  /\ lastOp.op \in {"Add", "AddInputs", "AddOutputs"}

InputsBound == lastOp.op \in {"Add", "AddInputs"}
OutputsBound == lastOp.op \in {"Add", "AddOutputs"}

\* C11 as stated: binding registers exactly L input and L output slots for the
\* Combined, Cross and Sliding-window caches and 2L for the Split cache, and
\* no two registered input names and no two registered output names are equal.
C11_Original ==
  JustBound =>
    LET n == IF cache.kind = "split" THEN 2 * cache.layer_count_ ELSE cache.layer_count_
    IN /\ InputsBound => /\ Len(cache.inputs_) - Len(prev.inputs_) = n
                          /\ Len(cache.input_names_) - Len(prev.input_names_) = n
                          /\ NoDuplicates(LastN(cache.input_names_, n))
       /\ OutputsBound => /\ Len(cache.outputs_) - Len(prev.outputs_) = n
                           /\ Len(cache.output_names_) - Len(prev.output_names_) = n
                           /\ NoDuplicates(LastN(cache.output_names_, n))

\* C11 amended: binding registers exactly L input and L output slots for the
\* Combined cache and exactly 2L for the Split, Cross and Sliding-window
\* caches; the registered names are the names composed from the variant's
\* templates, layer by layer in order; and no two registered input (output)
\* names are equal when every input (output) template holds the layer index
\* and the key and value templates begin or end with different literals.
C11_SlotsAndNames ==
  JustBound =>
    LET n == IF cache.kind = "combined" THEN cache.layer_count_ ELSE 2 * cache.layer_count_
    IN /\ InputsBound =>
            /\ Len(cache.inputs_) - Len(prev.inputs_) = n
            /\ Len(cache.input_names_) - Len(prev.input_names_) = n
            /\ LastN(cache.input_names_, n) = NamesFrom(InputTemplates(cache), n)
            /\ NameSafe(InputTemplates(cache)) => NoDuplicates(LastN(cache.input_names_, n))
       /\ OutputsBound =>
            /\ Len(cache.outputs_) - Len(prev.outputs_) = n
            /\ Len(cache.output_names_) - Len(prev.output_names_) = n
            /\ LastN(cache.output_names_, n) = NamesFrom(OutputTemplates(cache), n)
            /\ NameSafe(OutputTemplates(cache)) => NoDuplicates(LastN(cache.output_names_, n))

\* a Sliding-window cache of three layers bound under the default templates
C11_Witness ==
  /\ JustBound /\ cache.kind = "sliding"
  /\ cache.layer_count_ = 3
  /\ NameSafe(InputTemplates(cache)) /\ NameSafe(OutputTemplates(cache))
  /\ Len(cache.input_names_) = 7

\* every name the constructor composes fits: no naming call throws
NamesCompose(templates, layer_count) ==
  \A t \in 1..Len(templates), i \in 0..(layer_count - 1) :
    Len(Formatted(templates[t], i)) < KeyValueNameLength

\* the cache of the state, or the one whose construction failed, is of this variant
IsVariant(c, variant) == c.kind = variant \/ (c.kind = "failed" /\ c.variant = variant)

C18_CrossStatic ==
  cache.kind = "cross" =>
    LET n == 2 * cache.layer_count_
    IN /\ cache.values_ = atAdd.values_
       /\ Len(cache.values_) = n
       /\ cache.heap = atAdd.heap
       /\ cache.next = atAdd.next
       /\ cache.shape_ = atAdd.shape_
       /\ \A i \in 1..n :
            /\ cache.values_[i] \in DOMAIN cache.heap
            /\ cache.heap[cache.values_[i]].shape
                 = <<BatchBeamSize(cache.cfg), cache.cfg.num_key_value_heads,
                     EncoderSequenceLength, cache.cfg.head_size>>
       /\ lastOp.op = "AddOutputs" =>
            /\ cache.inputs_ = prev.inputs_
            /\ cache.input_names_ = prev.input_names_
            /\ cache.outputs_ = prev.outputs_ \o cache.values_
            /\ cache.output_names_ = prev.output_names_ \o cache.output_name_strings_
       /\ lastOp.op = "AddInputs" =>
            /\ cache.outputs_ = prev.outputs_
            /\ cache.output_names_ = prev.output_names_
            /\ cache.inputs_ = prev.inputs_ \o cache.values_
            /\ cache.input_names_ = prev.input_names_ \o cache.input_name_strings_

\* a two-layer Cross cache registered as outputs and then as inputs
C18_Witness ==
  /\ cache.kind = "cross"
  /\ cache.layer_count_ = 2
  /\ lastOp.op = "AddInputs"
  /\ Len(cache.outputs_) = 5 /\ Len(cache.inputs_) = 5
  /\ cache.inputs_[2] = cache.outputs_[2] /\ cache.inputs_[2] # cache.inputs_[3]

\* a finished call of ComposeKeyValueName that did not crash
Composed == call.kind = "ComposeKeyValueName" /\ call.done /\ ~call.fault

\* C15 as stated: for a template and layer index whose formatted name has
\* length n, the function returns the complete formatted name when n is
\* within the 64-character bound and throws when n exceeds 64 characters; it
\* never returns a truncated name.
C15_Original ==
  (Composed /\ WellFormed(call.template_string)) =>
    LET name == Formatted(call.template_string, call.index)
    IN /\ Len(name) <= 64 => (~call.result.threw /\ call.result.value = name)
       /\ Len(name) > 64 => call.result.threw

\* C15 amended: the function returns the complete formatted name when its
\* length n is at most 63 (the 64-character buffer holds the terminator too)
\* and throws a runtime error when n is 64 or more, or when snprintf reports
\* an error; it never returns a truncated name.
C15_ComposeBound ==
  Composed =>
    /\ call.length < 0 => (call.result.threw /\ call.result.what = "runtime_error")
    /\ WellFormed(call.template_string) =>
         LET name == Formatted(call.template_string, call.index)
         IN /\ call.length = Len(name)
            /\ Len(name) <= KeyValueNameLength - 1 =>
                 (~call.result.threw /\ call.result.value = name)
            /\ Len(name) >= KeyValueNameLength =>
                 (call.result.threw /\ call.result.what = "runtime_error")
            /\ ~call.result.threw => call.result.value = name

\* a name of exactly 64 characters, three of them the digits of the index
C15_Witness ==
  /\ Composed /\ WellFormed(call.template_string)
  /\ call.index = 123
  /\ Len(Formatted(call.template_string, call.index)) = KeyValueNameLength
  /\ call.result.threw

C17_Original ==
  cache.kind = "split" =>
    (cache.log # <<>>
       <=> cache.past_present_share_buffer_ # cache.cfg.past_present_share_buffer)

\* C17 amended: Split cache construction surfaces one warning exactly when
\* the computed shared-buffer mode differs from the requested one and logging
\* is enabled with warnings on (g_log.enabled and g_log.warning); otherwise
\* none; no later operation logs.
C17_WarningWhenDowngraded ==
  cache.kind = "split" =>
    /\ cache.log = (IF /\ cache.past_present_share_buffer_ # cache.cfg.past_present_share_buffer
                        /\ cache.cfg.g_log.enabled
                        /\ cache.cfg.g_log.warning
                     THEN <<"warning">> ELSE <<>>)
    /\ cache.log = atAdd.log

\* a downgraded request with logging and warnings on, after binding
C17_Witness ==
  /\ cache.kind = "split" /\ cache.added
  /\ cache.log = <<"warning">>
  /\ cache.cfg.past_present_share_buffer /\ ~cache.past_present_share_buffer_

\* the last step was an Update call (completed, or ended by a fault) of a
\* Combined or non-shared Split cache
Updated ==
  /\ cache.kind \in {"split", "combined"}
  /\ ~cache.past_present_share_buffer_
  /\ lastOp.op \in {"Update", "Fault"}

\* the call ended in an exception or an error result
Reported == lastOp.op = "Throw"

\* C12: when Update of a Combined or non-shared Split cache (of a float or
\* half-precision type) is given a beam index outside [0, batch x beam), the
\* operation ends in a reported error and no element outside the present
\* tensor's bounds is read.
C12_Original ==
  (Updated /\ cache.type_ \in {"float", "float16"} /\ ~InRange(lastOp.beam, cache)) =>
    /\ Reported
    /\ ~PickReadsOutOfBounds(prev, lastOp.beam)

\* an Update of a float Split cache that completed with an index one past the
\* last row, having read beyond the present
C12_Witness ==
  /\ Updated /\ lastOp.op = "Update"
  /\ cache.kind = "split" /\ cache.type_ = "float"
  /\ BatchBeamSize(cache.cfg) = 2
  /\ lastOp.beam = <<0, 2>>
  /\ PickReadsOutOfBounds(prev, lastOp.beam)
  /\ cache.pasts_[1] \in DOMAIN cache.heap

\* C13: construction of a Combined cache fails with an error whenever the
\* declared input type of layer 0 is neither 32-bit float nor half-precision
\* float; no Combined cache with another element type reaches Update /
\* PickPastState.
C13_Original ==
  IsVariant(cache, "combined") =>
    /\ cache.cfg.input_type \notin {"float", "float16"} => cache.kind = "failed"
    /\ (cache.kind = "combined" /\ lastOp.op \in {"Update", "Fault"}) =>
         cache.type_ \in {"float", "float16"}

\* a Combined cache declared uint8 whose Update, given the identity list, ran
\* the half-precision copy: the past is a half-precision tensor and the copy
\* read beyond the present
C13_Witness ==
  /\ Updated /\ lastOp.op = "Update"
  /\ cache.kind = "combined" /\ cache.type_ = "uint8"
  /\ lastOp.beam = Identity(BatchBeamSize(cache.cfg))
  /\ cache.heap[cache.pasts_[1]].type = "float16"
  /\ prev.heap[prev.presents_[1]].type = "uint8"
  /\ PickReadsOutOfBounds(prev, lastOp.beam)

\* the last step was a call of EnsureReadbackHeap that ran to its end or threw
Ensured == lastOp.op = "EnsureReadbackHeap" /\ lastOp.result # "abort"

\* the capacities doubling reaches from base without leaving size_t
Doublings(base) == {x \in base..SizeMax : \E k \in 0..SizeBits : x = base * 2^k}

\* C19: over any sequence of EnsureReadbackHeap(size) calls the capacity
\* never decreases; after each successful call the capacity is
\* c_initialCapacity * 2^k for some k >= 0 and is >= the requested size; and
\* when the existing capacity is already >= size, neither the capacity nor
\* the staging buffer handle changes.  An existing capacity is read as a
\* capacity other than the 0 of a heap that never allocated.
C19_Original ==
  Ensured =>
    /\ readback.m_capacity >= prev.m_capacity
    /\ lastOp.result = "ok" =>
         /\ readback.m_capacity \in Doublings(c_initialCapacity)
         /\ readback.m_capacity >= lastOp.size
    /\ (prev.m_capacity # 0 /\ prev.m_capacity >= lastOp.size) =>
         /\ readback.m_capacity = prev.m_capacity
         /\ readback.m_readbackHeap = prev.m_readbackHeap

\* a successful call that lowered m_capacity: the call before it had raised
\* m_capacity and then failed to create the buffer
C19_Witness ==
  /\ Ensured /\ lastOp.result = "ok"
  /\ prev.m_readbackHeap = Null /\ prev.m_capacity > c_initialCapacity
  /\ readback.m_capacity < prev.m_capacity
  /\ readback.m_capacity >= lastOp.size

\* C20: ComputeNewCapacity never returns a value that wrapped around size_t
\* or that is smaller than the desired capacity; whenever doubling cannot
\* reach the desired capacity without overflow it raises E_OUTOFMEMORY, and
\* then EnsureReadbackHeap leaves m_capacity and the staging buffer unchanged.
C20_NoWrap ==
  (Ensured /\ (prev.m_readbackHeap = Null \/ prev.m_capacity < lastOp.size)) =>
    LET base == IF prev.m_readbackHeap = Null THEN c_initialCapacity ELSE prev.m_capacity
        reach == {x \in Doublings(base) : x >= lastOp.size}
    IN /\ reach = {} => lastOp.result = "E_OUTOFMEMORY"
       /\ lastOp.result = "E_OUTOFMEMORY" =>
            /\ readback.m_capacity = prev.m_capacity
            /\ readback.m_readbackHeap = prev.m_readbackHeap
            /\ readback.resources = prev.resources
       /\ lastOp.result # "E_OUTOFMEMORY" =>
            /\ readback.m_capacity \in reach
            /\ \A x \in reach : readback.m_capacity <= x

\* a grown buffer asked for more than any doubling can give
C20_Witness ==
  /\ Ensured /\ lastOp.result = "E_OUTOFMEMORY"
  /\ prev.m_readbackHeap # Null
  /\ prev.m_capacity > c_initialCapacity
  /\ lastOp.size = SizeMax

\* the last step was a call of ReadbackFromGpu
ReadBack == lastOp.op = "ReadbackFromGpu" /\ call.kind = "ReadbackFromGpu"

\* the number of events of one kind in a call
Count(events, e) == Cardinality({k \in 1..Len(events) : events[k] = e})

\* the sizes of a call add up to more than a uint32_t holds
SumWraps(dstSizes) ==
  \E n \in 1..Len(dstSizes) :
    totalSize(dstSizes, n - 1) + dstSizes[n] > UInt32Max

\* C21: reading N regions of sizes s_1..s_N copies into N destinations such
\* that destination i receives exactly the s_i bytes of source region i, for
\* any region count and ordering, with exactly one synchronization wait per
\* call.  A call without regions has nothing to read and is left out here.
C21_Original ==
  (ReadBack /\ call.variant = "multi" /\ call.result = "ok"
     /\ Len(call.dstSizes) > 0) =>
    /\ \A i \in 1..Len(call.dstSizes) :
         call.dst[i] = Put(HostBuffer(call.dstSizes[i]), 0,
                           SubSeq(call.src[i], 1, call.dstSizes[i]))
    /\ Count(call.events, "WaitForSignal") = 1

\* a call that returned normally although its sizes add up past uint32_t:
\* the second destination holds bytes that are not those of its source
C21_Witness ==
  /\ ReadBack /\ call.variant = "multi" /\ call.result = "ok"
  /\ Len(call.dstSizes) = 2 /\ SumWraps(call.dstSizes)
  /\ call.dst[2] # Put(HostBuffer(call.dstSizes[2]), 0,
                       SubSeq(call.src[2], 1, call.dstSizes[2]))

\* the events of a call over n regions that runs to its end
ReadbackOrder(n) ==
  <<"EnsureReadbackHeap">> \o Repeat(n, "CopyBufferRegion")
  \o <<"Flush", "WaitForSignal", "ReleaseCompletedReferences", "Map">>
  \o Repeat(n, "memcpy") \o <<"Unmap">>

IsPrefix(p, q) == Len(p) <= Len(q) /\ SubSeq(q, 1, Len(p)) = p

\* C22: in both ReadbackFromGpu variants the events of one call occur in
\* this order: capacity ensured, all device copies issued, flush, wait,
\* release of completed references, map, all host copies, unmap; no host
\* copy happens before the wait and the buffer is not left mapped when the
\* call returns normally.  A multi-region call without regions makes none
\* of the events.
C22_ReadbackOrder ==
  ReadBack =>
    LET n == Len(call.dstSizes)
    IN /\ IsPrefix(call.events, ReadbackOrder(n))
       /\ \A i \in 1..Len(call.events) :
            call.events[i] = "memcpy" =>
              \E j \in 1..(i - 1) : call.events[j] = "WaitForSignal"
       /\ call.result = "ok" =>
            /\ ~readback.mapped
            /\ n > 0 => call.events = ReadbackOrder(n)

\* calls of either variant that ran to their end
C22_Witness ==
  /\ ReadBack /\ call.result = "ok"
  /\ \/ call.variant = "multi" /\ Len(call.dstSizes) = 2
     \/ call.variant = "single" /\ prev.m_readbackHeap # Null
  /\ Count(call.events, "memcpy") = Len(call.dstSizes)

\* the sequence-length dimension of tensor h of cache c
SeqLen(c, h) == c.heap[h].shape[IF c.kind = "combined" THEN 4 ELSE 3]

\* C23: in non-shared Combined/Split caches, after Add and before the first
\* Update every input slot is the empty-past tensor with sequence-length 0;
\* after the k-th Update with length n_k every input slot has the
\* sequence-length the presents had before that call (n_(k-1), n_0 the
\* prompt sequence_length) and every output slot has sequence-length n_k.
C23_SequenceLength ==
  (cache.added /\ ~cache.past_present_share_buffer_) =>
    \A i \in 0..(SlotCount(cache) - 1) :
      /\ nUpdates = 0 =>
           /\ InSlot(cache, i) = cache.empty_past_
           /\ SeqLen(cache, InSlot(cache, i)) = 0
           /\ SeqLen(cache, OutSlot(cache, i)) = cache.cfg.sequence_length
      /\ nUpdates > 0 =>
           /\ SeqLen(cache, InSlot(cache, i)) = SeqLen(prev, OutSlot(prev, i))
           /\ SeqLen(cache, OutSlot(cache, i)) = SeqLen(cache, cache.presents_[i + 1])
      /\ nUpdates = 1 => SeqLen(cache, InSlot(cache, i)) = cache.cfg.sequence_length
      /\ lastOp.op = "Update" => SeqLen(cache, OutSlot(cache, i)) = lastOp.len

\* the second Update of a Split cache, with beam indices, to a length other
\* than the one before
C23_Witness ==
  /\ cache.kind = "split" /\ lastOp.op = "Update" /\ nUpdates = 2
  /\ lastOp.beam # <<>>
  /\ SeqLen(prev, OutSlot(prev, 0)) # prev.cfg.sequence_length
  /\ lastOp.len # SeqLen(prev, OutSlot(prev, 0))

\* the state a constructor returned: nothing was done to the cache since
Constructed(variant) == cache.kind = variant /\ ~cache.added /\ lastOp = NoOp

\* C24: when the Split constructor returns, every byte of every one of the
\* 2 * layer_count present tensors is zero: the fill covers the tensor's
\* full size for the shape in effect, in shared and in non-shared mode.
C24_PresentsZeroed ==
  Constructed("split") =>
    /\ Len(cache.presents_) = 2 * cache.layer_count_
    /\ \A i \in 1..Len(cache.presents_) :
         LET t == cache.heap[cache.presents_[i]]
         IN /\ t.shape = cache.shape_
            /\ t.shape[3] = IF cache.past_present_share_buffer_
                            THEN cache.cfg.max_length ELSE cache.cfg.sequence_length
            /\ Len(t.data) = Prod(t.shape)
            /\ \A k \in 1..Len(t.data) : t.data[k] = 0
            /\ kv_cache_size_bytes(cache) = SizeOf(t.type) * Len(t.data)

\* a shared-mode cache of 4-byte elements with more than one element per row
C24_Witness ==
  /\ Constructed("split")
  /\ cache.past_present_share_buffer_ /\ cache.type_ = "float"
  /\ cache.shape_[2] > 1 /\ cache.shape_[4] > 1
  /\ cache.cfg.max_length # cache.cfg.sequence_length
  /\ Len(cache.heap[cache.presents_[2]].data) > 1

\* every element of tensor t is v
AllEqual(t, v) == Len(t.data) = Prod(t.shape) /\ \A k \in 1..Len(t.data) : t.data[k] = v

\* C25 as stated: when the sliding-window constructor returns, every byte of
\* every layer's key-in and value-in tensor equals the configured pad value,
\* over the full element count of the in-shape.
C25_Original ==
  Constructed("sliding") =>
    \A l \in 1..cache.layer_count_ :
      /\ AllEqual(KeyIn(cache, l), cache.cfg.pad_value)
      /\ AllEqual(ValueIn(cache, l), cache.cfg.pad_value)

\* C25: when the sliding-window constructor returns, every byte of every
\* layer's key-in and value-in tensor equals the configured pad value
\* converted to uint8 (the value modulo 256), over the full element count of
\* the in-shape.
C25_PadFilled ==
  Constructed("sliding") =>
    \A l \in 1..cache.layer_count_ :
      /\ KeyIn(cache, l).shape = cache.key_cache_shape_in_
      /\ ValueIn(cache, l).shape = cache.value_cache_shape_in_
      /\ AllEqual(KeyIn(cache, l), cache.cfg.pad_value % 256)
      /\ AllEqual(ValueIn(cache, l), cache.cfg.pad_value % 256)
      /\ cache.cfg.pad_value \in 0..255 =>
           /\ AllEqual(KeyIn(cache, l), cache.cfg.pad_value)
           /\ AllEqual(ValueIn(cache, l), cache.cfg.pad_value)

\* a constructed cache whose pad value does not fit a byte, with an in-tensor
\* of several heads and positions
C25_Witness ==
  /\ Constructed("sliding")
  /\ cache.cfg.pad_value = 300
  /\ cache.cfg.num_key_value_heads > 1
  /\ Len(KeyIn(cache, 1).data) > 2
  /\ KeyIn(cache, 1).data[1] = 44

\* C26: with window_size = W > 1, context_length = C and any number of
\* heads, after the collapsing Update every head h of the new value-in has
\* positions 0..C-W-2 equal to positions 1..C-W-1 of the SAME head h of the
\* old value-in, and positions C-W-1..C-2 equal to head h of the old
\* value-out.
C26_Original ==
  Collapsed =>
    \A l \in SWLayers, h \in SWHeads :
      LET new == ValueHead(ValueIn(cache, l), h)
          old == ValueHead(ValueIn(prev, l), h)
          out == ValueHead(ValueOut(prev, l), h)
          C == cache.cfg.context_length
          W == prev.window_size_
      IN /\ Len(new) = C - 1
         /\ \A p \in 0..(C - W - 2) : new[p + 1] = old[p + 2]
         /\ \A p \in (C - W - 1)..(C - 2) : new[p + 1] = out[p - (C - W - 1) + 1]

\* a completed collapse in which the history of head 1 was read behind the
\* end of the old value-in: the new head 1 does not begin with the old one
C26_Witness ==
  /\ Collapsed /\ ~cache.fault
  /\ SW_CollapseReadsOutOfBounds(prev)
  /\ cache.cfg.num_key_value_heads = 2
  /\ ValueHead(ValueIn(cache, 1), 1)[1] # ValueHead(ValueIn(prev, 1), 1)[2]

\* the chunks (head, head_size index) of a key tensor
SWChunks == 0..(cache.cfg.num_key_value_heads * cache.cfg.head_size - 1)

\* C27: with window_size = W > 1 and context_length = C, after the
\* collapsing Update every row (head, head_size index) of the new key-in has
\* length C - 1 and equals elements 1..C-W-1 of the same row of the old
\* key-in followed by the W elements of the same row of the old key-out;
\* every element of the new key-in is written exactly once.
C27_CollapseKeyRows ==
  Collapsed =>
    LET C == cache.cfg.context_length
        W == prev.window_size_
    IN \A l \in SWLayers :
         /\ \A h \in SWHeads, d \in SWDims :
              LET new == KeyRow(KeyIn(cache, l), h, d)
                  old == KeyRow(KeyIn(prev, l), h, d)
                  out == KeyRow(KeyOut(prev, l), h, d)
              IN /\ Len(new) = C - 1 /\ Len(old) = C - W /\ Len(out) = W
                 /\ \A x \in 1..(C - W - 1) : new[x] = old[x + 1]
                 /\ \A x \in 1..W : new[C - W - 1 + x] = out[x]
         /\ \A k \in 0..(Len(KeyIn(cache, l).data) - 1) :
              Cardinality({<<j, w>> \in SWChunks \X {1, 2} :
                             LET s == SW_KeyCollapseWrites(prev, j)[w]
                             IN k >= s.off /\ k < s.off + s.n}) = 1

\* a collapse with history to keep, over rows that differ
C27_Witness ==
  /\ Collapsed
  /\ prev.window_size_ >= 2
  /\ cache.cfg.context_length - prev.window_size_ >= 2
  /\ cache.cfg.num_key_value_heads = 2 /\ cache.cfg.head_size = 2
  /\ KeyRow(KeyOut(prev, 1), 1, 0) # KeyRow(KeyOut(prev, 1), 1, 1)
  /\ KeyRow(KeyIn(cache, 1), 0, 1) # KeyRow(KeyIn(cache, 1), 1, 1)

\* position k of a slot list lies outside the block of n slots after base
Outside(k, base, n) == k <= base \/ k > base + n

\* C28: every Update of the Combined, Split and Sliding-window caches writes
\* only the input slots in [input_index_, input_index_ + n) and the output
\* slots in [output_index_, output_index_ + n) recorded at Add (n = L for
\* Combined, 2L for Split and Sliding-window); it never changes the number
\* of slots, any slot name, or any slot registered by another component
\* before or after the cache's own block.
C28_SlotFrame ==
  (lastOp.op = "Update" /\ cache.kind \in {"split", "combined", "sliding"}) =>
    LET n == SlotCount(cache)
    IN /\ n = (IF cache.kind = "combined" THEN 1 ELSE 2) * cache.layer_count_
       /\ cache.input_index_ = atAdd.input_index_
       /\ cache.output_index_ = atAdd.output_index_
       /\ Len(cache.inputs_) = Len(prev.inputs_)
       /\ Len(cache.outputs_) = Len(prev.outputs_)
       /\ cache.input_names_ = prev.input_names_
       /\ cache.output_names_ = prev.output_names_
       /\ \A k \in 1..Len(cache.inputs_) :
            Outside(k, cache.input_index_, n) => cache.inputs_[k] = prev.inputs_[k]
       /\ \A k \in 1..Len(cache.outputs_) :
            Outside(k, cache.output_index_, n) => cache.outputs_[k] = prev.outputs_[k]

\* an Update that rebound the cache's slots between foreign slots registered
\* before and after them
C28_Witness ==
  /\ lastOp.op = "Update" /\ cache.kind = "sliding"
  /\ cache.input_index_ = 1
  /\ Len(cache.inputs_) = cache.input_index_ + SlotCount(cache) + 1
  /\ cache.inputs_[Len(cache.inputs_)] = Foreign
  /\ InSlot(cache, 0) # InSlot(prev, 0)
  /\ OutSlot(cache, 1) # OutSlot(prev, 1)

\* the tensors a cache owns
Owned(c) ==
  IF c.kind = "sliding"
  THEN {c.key_caches_in_[l] : l \in 1..Len(c.key_caches_in_)}
         \cup {c.value_caches_in_[l] : l \in 1..Len(c.value_caches_in_)}
         \cup {c.key_caches_out_[l] : l \in 1..Len(c.key_caches_out_)}
         \cup {c.value_caches_out_[l] : l \in 1..Len(c.value_caches_out_)}
  ELSE ({c.empty_past_} \cup {c.pasts_[i] : i \in 1..Len(c.pasts_)}
          \cup {c.presents_[i] : i \in 1..Len(c.presents_)}) \ {Null}

\* C29: after Add and after every completed Update of any cache variant,
\* each input and output slot registered by the cache refers to a tensor the
\* cache currently owns (empty_past_, an element of pasts_/presents_, or an
\* in/out tensor of the sliding-window cache); no slot refers to a tensor
\* that an Update has released.
C29_NoDanglingSlot ==
  (cache.kind \in {"split", "combined", "sliding"} /\ cache.added /\ ~cache.fault) =>
    \A i \in 0..(SlotCount(cache) - 1) :
      /\ InSlot(cache, i) \in Owned(cache)
      /\ InSlot(cache, i) \in DOMAIN cache.heap
      /\ OutSlot(cache, i) \in Owned(cache)
      /\ OutSlot(cache, i) \in DOMAIN cache.heap

\* a second Update that released the pasts of the first
C29_Witness ==
  /\ lastOp.op = "Update" /\ cache.kind = "split" /\ nUpdates = 2
  /\ ~cache.past_present_share_buffer_
  /\ InSlot(prev, 0) # prev.empty_past_
  /\ InSlot(prev, 0) \notin DOMAIN cache.heap
  /\ OutSlot(prev, 0) # OutSlot(cache, 0)

\* the last two axes of a shape swapped
SwapLast(shape) == <<shape[1], shape[2], shape[4], shape[3]>>

\* C30: in every state reachable by construction followed by any number of
\* Updates, key_in[3] + key_out[3] = context_length, value_in[2] = key_in[3],
\* value_out[2] = key_out[3] = window_size_, the value shapes are the key
\* shapes with the last two axes swapped, and each allocated tensor's shape
\* equals the corresponding shape record.
C30_SlidingGeometry ==
  cache.kind = "sliding" =>
    /\ cache.key_cache_shape_in_[4] + cache.key_cache_shape_out_[4] = cache.cfg.context_length
    /\ cache.value_cache_shape_in_[3] = cache.key_cache_shape_in_[4]
    /\ cache.value_cache_shape_out_[3] = cache.key_cache_shape_out_[4]
    /\ cache.key_cache_shape_out_[4] = cache.window_size_
    /\ cache.value_cache_shape_in_ = SwapLast(cache.key_cache_shape_in_)
    /\ cache.value_cache_shape_out_ = SwapLast(cache.key_cache_shape_out_)
    /\ \A l \in SWLayers :
         /\ KeyIn(cache, l).shape = cache.key_cache_shape_in_
         /\ KeyOut(cache, l).shape = cache.key_cache_shape_out_
         /\ ValueIn(cache, l).shape = cache.value_cache_shape_in_
         /\ ValueOut(cache, l).shape = cache.value_cache_shape_out_

\* a collapse followed by a slide, with heads and head size that differ
\* from the window
C30_Witness ==
  /\ cache.kind = "sliding" /\ nUpdates = 2 /\ collapses = 1
  /\ cache.cfg.window_size = 3 /\ cache.cfg.context_length = 5
  /\ cache.cfg.num_key_value_heads = 2 /\ cache.cfg.head_size = 1
  /\ cache.key_cache_shape_in_ = <<2, 1, 1, 4>>

\* the sum of the first n sizes, without any width
RECURSIVE TrueSum(_, _)
TrueSum(dstSizes, n) ==
  IF n = 0 THEN 0 ELSE TrueSum(dstSizes, n - 1) + dstSizes[n]

\* a multi-region call that got as far as recording its copies
CopiesIssued ==
  /\ ReadBack /\ call.variant = "multi"
  /\ Count(call.events, "CopyBufferRegion") > 0

\* C31: for every list of region sizes, the staging capacity ensured by a
\* multi-region call is at least the true, unbounded sum of the region
\* sizes, and the staging offset of every copy is the true running sum of
\* the sizes before it: the 32-bit accumulators never wrap.
C31_Original ==
  CopiesIssued =>
    /\ readback.m_capacity >= TrueSum(call.dstSizes, Len(call.dstSizes))
    /\ \A i \in 1..Len(call.dstSizes) :
         Regions(call.dstSizes, call.src)[i].dstOffset = TrueSum(call.dstSizes, i - 1)

\* two regions whose sizes add up to exactly 2^32: the call ensures 0 bytes,
\* keeps the initial capacity, and returns normally
C31_Witness ==
  /\ CopiesIssued /\ call.result = "ok"
  /\ Len(call.dstSizes) = 2
  /\ TrueSum(call.dstSizes, 2) = UInt32Max + 1
  /\ readback.m_capacity = c_initialCapacity
  /\ readback.m_capacity < TrueSum(call.dstSizes, 2)

\* C32: in every reachable state of DmlReadbackHeap, also after an
\* EnsureReadbackHeap call that failed (overflow error or buffer-creation
\* failure), the staging buffer is absent exactly when m_capacity is 0 and,
\* when present, has m_capacity bytes; so assert(m_capacity == 0) on the
\* first-time path never fails.
C32_Original ==
  readback.kind = "DmlReadbackHeap" =>
    /\ (readback.m_readbackHeap = Null) <=> (readback.m_capacity = 0)
    /\ readback.m_readbackHeap # Null =>
         readback.resources[readback.m_readbackHeap] = readback.m_capacity
    /\ ~readback.aborted

\* the state a failed buffer creation leaves behind a buffer that existed:
\* no buffer, and the capacity the new one would have had
C32_Witness ==
  /\ Ensured /\ lastOp.result = "create_failed"
  /\ prev.m_readbackHeap # Null
  /\ readback.m_readbackHeap = Null
  /\ readback.m_capacity > prev.m_capacity

\* the last step was a call of Schedule, by the user or by Generate
Scheduled == engine.kind = "OgaEngine" /\ lastOp.op = "Schedule"

Min(a, b) == IF a < b THEN a ELSE b

\* C33: with q prompts queued, one call of Schedule returns exactly
\* min(kMaxBatchSize, q) prompts, the oldest ones in FIFO order, removes
\* exactly those from the queue and leaves the others in their order; over
\* any interleaving of AddRequest and Schedule the prompts returned so far
\* followed by the prompts still queued are the prompts added, in order, so
\* none is returned twice and none is lost.
C33_ScheduleFifo ==
  /\ engine.kind = "OgaEngine" =>
       engine.popped \o engine.unscheduled_prompts_ = engine.pushed
  /\ Scheduled =>
       LET q == Len(prev.unscheduled_prompts_)
           n == Min(kMaxBatchSize, q)
       IN /\ Len(lastOp.result) = n
          /\ lastOp.result = SubSeq(prev.unscheduled_prompts_, 1, n)
          /\ engine.unscheduled_prompts_ = SubSeq(prev.unscheduled_prompts_, n + 1, q)
          /\ engine.popped = prev.popped \o lastOp.result
          /\ engine.pushed = prev.pushed

\* a Schedule call, after an earlier one, that finds more prompts than a
\* batch holds, the two oldest being different
C33_Witness ==
  /\ Scheduled /\ call = Idle
  /\ Len(prev.popped) > 0
  /\ Len(prev.unscheduled_prompts_) = kMaxBatchSize + 1
  /\ prev.unscheduled_prompts_[1] # prev.unscheduled_prompts_[2]
  /\ Len(lastOp.result) = kMaxBatchSize
  /\ Len(engine.unscheduled_prompts_) = 1

\* Generate has returned to its caller / has been left by an exception
Returned == call.kind = "Generate" /\ call.pc = "returned"

Threw == call.kind = "Generate" /\ call.pc = "threw"

\* the least number of batches of size k that hold q prompts
CeilDiv(q, k) == (q + k - 1) \div k

\* C34: Generate terminates: for any prompts passed and any number of
\* prompts already queued by AddRequest, the scheduling loop ends after
\* finitely many batches, and when Generate returns it has run
\* ceil(q / kMaxBatchSize) batches for the q prompts queued at the start of
\* the loop and the queue is empty.
C34_GenerateTerminates ==
  /\ InGenerate ~> (Returned \/ Threw)
  /\ [](Returned =>
          /\ engine.unscheduled_prompts_ = <<>>
          /\ call.batches = CeilDiv(call.queued, kMaxBatchSize))

\* a Generate that found prompts queued by AddRequest, needed more than one
\* batch, the last one not full, and returned
C34_Witness ==
  /\ Returned
  /\ call.queued > Len(call.prompts) /\ Len(call.prompts) > 0
  /\ call.queued = 2 * kMaxBatchSize + 1
  /\ call.batches = 3

\* C35: the vector Generate returns holds exactly one output per prompt
\* passed to the call, output i being the generation for prompt i, given
\* that each batch decodes to one string per scheduled prompt.
C35_Original ==
  Returned =>
    call.outputs = [i \in 1..Len(call.prompts) |-> Generated(call.prompts[i])]

\* Generate called with one prompt on an empty queue returns two strings:
\* an empty one and, after it, the generation for the prompt
C35_Witness ==
  /\ Returned
  /\ Len(call.prompts) = 1 /\ call.queued = 1
  /\ call.outputs = <<EmptyString, Generated(call.prompts[1])>>

\* the last step was a call of one of the three methods of Model that use
\* the native model
UsedModel ==
  /\ java.kind = "Model"
  /\ lastOp.op \in {"createTokenizer", "createGeneratorParams", "generate"}

\* how often the native model was destroyed
Destroyed(m) ==
  Cardinality({k \in 1..Len(m.native) : m.native[k].fn = "destroyModel"})

\* C36 as stated: close() releases the native handle at most once over any
\* number of close() calls, later calls being no-ops; after close() every
\* call of createTokenizer, createGeneratorParams or generate throws
\* IllegalStateException without reaching native code; generate with a
\* closed GeneratorParams throws IllegalArgumentException.
C36_Original ==
  java.kind = "Model" =>
    /\ Destroyed(java) <= 1
    /\ (lastOp.op = "close" /\ prev.nativeHandle = 0) => java = prev
    /\ (UsedModel /\ prev.nativeHandle = 0) =>
         /\ lastOp.result = "IllegalStateException"
         /\ java = prev
    /\ (lastOp.op = "generate" /\ prev.params[lastOp.params] = 0) =>
         lastOp.result = "IllegalArgumentException"

\* C36: close() releases the native handle at most once over any number
\* of close() calls, later calls being no-ops; after close(),
\* createTokenizer and createGeneratorParams throw IllegalStateException,
\* and so does generate when its GeneratorParams is open; generate with a
\* closed GeneratorParams throws IllegalArgumentException, whether the
\* Model is closed or not; none of these calls reaches native code.
C36_ModelLifecycle ==
  java.kind = "Model" =>
    /\ Destroyed(java) <= 1
    /\ (lastOp.op = "close" /\ prev.nativeHandle = 0) => java = prev
    /\ (UsedModel /\ prev.nativeHandle = 0
          /\ (lastOp.op = "generate" => prev.params[lastOp.params] # 0)) =>
         /\ lastOp.result = "IllegalStateException"
         /\ java = prev
    /\ (lastOp.op = "generate" /\ prev.params[lastOp.params] = 0) =>
         /\ lastOp.result = "IllegalArgumentException"
         /\ java = prev

\* generate on a closed Model with a closed GeneratorParams, as the last of
\* MaxJavaCalls calls
C36_Witness ==
  /\ java.kind = "Model" /\ lastOp.op = "generate"
  /\ prev.nativeHandle = 0 /\ prev.params[lastOp.params] = 0
  /\ lastOp.result = "IllegalArgumentException"
  /\ Destroyed(java) = 1
  /\ nUpdates = MaxJavaCalls

====
